---- MODULE Spec2Model ----
(***************************************************************************)
(* harbor-cleaner: the retention decision engine.                          *)
(*                                                                         *)
(* Strings the program takes apart or puts together (image references,    *)
(* repository names, tag names, URLs) are sequences of one-character       *)
(* strings, so that prefix stripping, LastIndex, Contains, ToUpper and     *)
(* concatenation are computed as the Go code computes them.  Strings the   *)
(* program only passes around (status labels, note texts) are atoms.       *)
(***************************************************************************)
EXTENDS Integers, Sequences, FiniteSets, TLC

----------------------------------------------------------------------------
\* Bounds of the model.

\* artifacts in the whole registry
MaxArts == 2
\* largest keep-last value tried
MaxKeep == 2
\* largest max-snapshots value tried
MaxSnap == 1
\* number of distinct push times
MaxTime == 2
\* data rows in the manifest file
MaxRows == 2
\* collaborator calls (list, delete) that fail in one run
MaxFailures == 1

\* containers in a pod template
MaxContainers == 2

\* replica sets in a deployment's history
MaxRS == 2

\* largest 'keep' of an environment
MaxKeepN == 2

\* workloads in the scanned clusters
MaxWorkloads == 2

\* length of a wildcard pattern
MaxPattern == 3

\* length of a workload name
MaxName == 3

\* patterns in a pod whitelist or blacklist
MaxPatterns == 2

----------------------------------------------------------------------------
\* Go's strings package, on sequences of characters.

HasPrefix(s, prefix) ==
    /\ Len(prefix) <= Len(s)
    /\ SubSeq(s, 1, Len(prefix)) = prefix

HasSuffix(s, suffix) ==
    /\ Len(suffix) <= Len(s)
    /\ SubSeq(s, Len(s) - Len(suffix) + 1, Len(s)) = suffix

TrimPrefix(s, prefix) ==
    IF HasPrefix(s, prefix) THEN SubSeq(s, Len(prefix) + 1, Len(s)) ELSE s

TrimSuffix(s, suffix) ==
    IF HasSuffix(s, suffix) THEN SubSeq(s, 1, Len(s) - Len(suffix)) ELSE s

\* strings.LastIndex for a one-character needle: 0-based, -1 when absent.
LastIndex(s, c) ==
    LET hits == {i \in 1..Len(s) : s[i] = c}
    IN  IF hits = {} THEN -1
        ELSE (CHOOSE i \in hits : \A j \in hits : j <= i) - 1

Contains(s, substr) ==
    \E i \in 1..(Len(s) - Len(substr) + 1) :
        SubSeq(s, i, i + Len(substr) - 1) = substr

UpperOf ==
    [c \in {"a", "h", "n", "o", "p", "s", "t"} |->
        CASE c = "a" -> "A" [] c = "h" -> "H" [] c = "n" -> "N" [] c = "o" -> "O"
          [] c = "p" -> "P" [] c = "s" -> "S" [] c = "t" -> "T"]

ToUpper(s) ==
    [i \in 1..Len(s) |-> IF s[i] \in DOMAIN UpperOf THEN UpperOf[s[i]] ELSE s[i]]

RECURSIVE Join(_, _)
Join(elems, sep) ==
    IF Len(elems) = 0 THEN <<>>
    ELSE IF Len(elems) = 1 THEN elems[1]
    ELSE elems[1] \o sep \o Join(Tail(elems), sep)

IsSpace(c) == c = " "

RECURSIVE TrimLeft(_)
TrimLeft(s) ==
    IF Len(s) > 0 /\ IsSpace(s[1]) THEN TrimLeft(Tail(s)) ELSE s

RECURSIVE TrimRight(_)
TrimRight(s) ==
    IF Len(s) > 0 /\ IsSpace(s[Len(s)]) THEN TrimRight(SubSeq(s, 1, Len(s) - 1)) ELSE s

TrimSpace(s) == TrimRight(TrimLeft(s))

----------------------------------------------------------------------------
\* Literals.

Slash == <<"/">>
Colon == <<":">>
Comma == <<",">>
SNAPSHOT == <<"S", "N", "A", "P", "S", "H", "O", "T">>
LowerSnapshot == <<"s", "n", "a", "p", "s", "h", "o", "t">>
Digit == <<"1", "2", "3", "4", "5", "6", "7", "8", "9">>

\* harbor.url of the configuration
HarborURL == <<"h", "t", "t", "p", "s", ":", "/", "/", "h">>

\* NewHarborClient: BaseURL is the configured URL without a trailing slash.
BaseURL == TrimSuffix(HarborURL, Slash)

\* RunKubernetesStrategy: the registry host, BaseURL without its scheme.
HarborDomain ==
    TrimPrefix(TrimPrefix(BaseURL, <<"h", "t", "t", "p", "s", ":", "/", "/">>),
               <<"h", "t", "t", "p", ":", "/", "/">>)

----------------------------------------------------------------------------
\* The registry the Harbor client talks to.

\* ListProjects: the project names, in listing order.
ProjectNames == << <<"d">>, <<"o">> >>

\* Repository names carry the project prefix ('library/ubuntu').
RepoDA == <<"d", "/", "a">>
RepoDB == <<"d", "/", "b">>
RepoOC == <<"o", "/", "c">>
RepoNames == <<RepoDA, RepoDB, RepoOC>>

\* ListRepositories: the repositories of a project, in listing order.
ReposOf(project) ==
    IF project = <<"d">> THEN <<RepoDA, RepoDB>>
    ELSE IF project = <<"o">> THEN <<RepoOC>>
    ELSE <<>>

\* The tags an artifact carries, by kind; digest n makes the names unique.
TagsOf(kind, n) ==
    CASE kind = "untagged"  -> <<>>
      [] kind = "release"   -> << <<"v", Digit[n]>> >>
      [] kind = "snapshot"  -> << <<Digit[n]>> \o SNAPSHOT >>
      [] kind = "lowersnap" -> << <<Digit[n]>> \o LowerSnapshot >>
      [] kind = "multi"     -> << <<"w", Digit[n]>>, <<"v", Digit[n]>> >>

\* harbor.Artifact
Artifact(n, kind, time) == [Digest |-> n, PushTime |-> time, Tags |-> TagsOf(kind, n)]

KindNames == <<"untagged", "release", "snapshot", "lowersnap", "multi">>

\* The time-based evaluators read the push time and the first tag; the
\* manifest evaluator reads the tags only.
KindsFor(pol) ==
    IF pol = "k8s" THEN {1, 2, 5} ELSE {1, 2, 3, 4}

TimesFor(pol) ==
    IF pol = "k8s" THEN {1} ELSE 1..MaxTime

ArtSpecs(pol) == [repo : 1..Len(RepoNames), kind : KindsFor(pol), time : TimesFor(pol)]

SpecRank(a) == a.repo * 100 + a.kind * 10 + a.time

TimesIn(f, r) == {f[i].time : i \in {k \in DOMAIN f : f[k].repo = r}}

\* Registry contents up to the naming of digests and, push times being
\* compared within one repository only, up to the order of its push times.
RegistryChoices(pol) ==
    UNION { { f \in [1..n -> ArtSpecs(pol)] :
                /\ \A i \in 1..n : \A j \in 1..n : i < j => SpecRank(f[i]) <= SpecRank(f[j])
                /\ \A r \in 1..Len(RepoNames) : TimesIn(f, r) = 1..Cardinality(TimesIn(f, r)) }
            : n \in 0..MaxArts }

RECURSIVE ArtifactsIn(_, _, _)
ArtifactsIn(f, r, n) ==
    IF n > Len(f) THEN <<>>
    ELSE (IF f[n].repo = r THEN <<Artifact(n, KindNames[f[n].kind], f[n].time)>> ELSE <<>>)
         \o ArtifactsIn(f, r, n + 1)

RegistryOf(f) ==
    [name \in {RepoNames[r] : r \in 1..Len(RepoNames)} |->
        ArtifactsIn(f, CHOOSE r \in 1..Len(RepoNames) : RepoNames[r] = name, 1)]

\* The registry after a successful DELETE of one artifact.
RemoveArtifact(reg, repo, digest) ==
    [reg EXCEPT ![repo] = SelectSeq(reg[repo], LAMBDA a : a.Digest # digest)]

----------------------------------------------------------------------------
\* Configuration.

\* LoadConfig: viper unmarshals into Config; a key the file does not set
\* leaves the field at Go's zero value.
LoadConfigDryRun(fileValue) == fileValue = "true"

\* Legacy v5: flag.Bool("dry-run", true, ...).
LegacyFlagDryRun(argValue) == IF argValue = "unset" THEN TRUE ELSE argValue = "true"

\* what the configuration file (the command line, for v5) says about dry-run
DryRunSettings == {"unset", "true", "false"}

DryRunOf(pol, value) ==
    IF pol = "legacy" THEN LegacyFlagDryRun(value) ELSE LoadConfigDryRun(value)

\* ParseWhitelist: "" is no whitelist; otherwise the trimmed items.
RECURSIVE Split(_, _)
Split(s, sep) ==
    LET hits == {i \in 1..Len(s) : s[i] = sep}
    IN  IF hits = {} THEN <<s>>
        ELSE LET i == CHOOSE k \in hits : \A j \in hits : k <= j
             IN  <<SubSeq(s, 1, i - 1)>> \o Split(SubSeq(s, i + 1, Len(s)), sep)

ParseWhitelist(whitelistCSV) ==
    IF whitelistCSV = <<>> THEN [active |-> FALSE, names |-> {}]
    ELSE LET items == Split(whitelistCSV, ",")
         IN  [active |-> TRUE, names |-> {TrimSpace(items[i]) : i \in 1..Len(items)}]

\* Legacy v5 main: the same, but empty items are dropped.
LegacyParseWhitelist(whitelistCSV) ==
    IF whitelistCSV = <<>> THEN [active |-> FALSE, names |-> {}]
    ELSE LET items == Split(whitelistCSV, ",")
         IN  [active |-> TRUE,
              names |-> {TrimSpace(items[i]) : i \in 1..Len(items)} \ {<<>>}]

WhitelistOf(pol, whitelistCSV) ==
    IF pol = "legacy" THEN LegacyParseWhitelist(whitelistCSV) ELSE ParseWhitelist(whitelistCSV)

\* project-whitelist values tried
NoWhitelist == { <<>> }
WhitelistStrings == { <<>>, <<"d">>, <<" ", "o">> }

\* Variant: the whitelist is parsed but never consulted.
InWhitelistIgnored(wl, project) == TRUE

InWhitelist(wl, project) == wl.active => project \in wl.names

----------------------------------------------------------------------------
\* The manifest file.

ManifestHeader ==
    << <<"i", "m", "a", "g", "e">>,
       <<"e", "n", "v", "i", "r", "o", "n", "m", "e", "n", "t">>,
       <<"n", "a", "m", "e", "s", "p", "a", "c", "e">> >>

ImgDA1 == HarborDomain \o Slash \o RepoDA \o Colon \o <<"v", "1">>
ImgDA2 == HarborDomain \o Slash \o RepoDA \o Colon \o <<"v", "2">>
ImgOC1 == HarborDomain \o Slash \o RepoOC \o Colon \o <<"v", "1">>
\* the same repository path on another registry host
ImgForeign == <<"x">> \o Slash \o RepoDB \o Colon \o <<"v", "1">>

ManifestImages == {ImgDA1, ImgDA2, ImgOC1, ImgForeign}

ManifestContexts == { << <<"p">>, <<"n">> >>, << <<"q">>, <<"m">> >> }

ManifestRowChoices == { <<img, c[1], c[2]>> : img \in ManifestImages, c \in ManifestContexts }

ManifestFiles ==
    UNION { { <<ManifestHeader>> \o rows : rows \in [1..n -> ManifestRowChoices] }
            : n \in 0..MaxRows }

\* Variant: a later row of an image replaces its contexts.
AppendContextReplaces(old, ctx) == <<ctx>>

\* "contextMap[image] = append(contextMap[image], ImageContext{...})"
AppendContext(old, ctx) == Append(old, ctx)

\* ReadManifestFromCSV, on the records the csv reader returns.
RECURSIVE ReadRows(_, _, _, _)
ReadRows(records, i, safeSet, ctxMap) ==
    IF i > Len(records) THEN [safeImageSet |-> safeSet, contextMap |-> ctxMap]
    ELSE IF i = 1 \/ Len(records[i]) < 3 THEN ReadRows(records, i + 1, safeSet, ctxMap)
    ELSE LET image == TrimSpace(records[i][1])
             env   == TrimSpace(records[i][2])
             ns    == TrimSpace(records[i][3])
             old   == IF image \in DOMAIN ctxMap THEN ctxMap[image] ELSE <<>>
         IN  IF image = <<>> THEN ReadRows(records, i + 1, safeSet, ctxMap)
             ELSE ReadRows(records, i + 1, safeSet \cup {image},
                           [k \in DOMAIN ctxMap \cup {image} |->
                               IF k = image THEN AppendContext(old, [Env |-> env, Namespace |-> ns])
                               ELSE ctxMap[k]])

\* Variant: the first row is read as a record too.
ReadManifestFromCSVHeaderRead(records) == ReadRows(<< <<>> >> \o records, 1, {}, <<>>)

\* The header row is skipped, then every row of three or more fields is read.
ReadManifestFromCSV(records) == ReadRows(records, 1, {}, <<>>)

----------------------------------------------------------------------------
\* State.

VARIABLES
    policy,            \* "harbor" | "k8s" (cfg.Strategy) | "legacy" (the v5 main)
    dryRun,            \* cfg.DryRun / *dryRun
    keepLastN,         \* cfg.Harbor.KeepLastN / *keepLastN
    maxSnapshots,      \* cfg.Harbor.MaxSnapshots / *maxSnapshots
    projectWhitelist,  \* result of ParseWhitelist
    safeImageSet,      \* ReadManifestFromCSV, first result
    contextMap,        \* ReadManifestFromCSV, second result
    registry,          \* repository name -> artifacts held by Harbor
    pc,                \* "start", "loop", "done", "fatal"
    projects,          \* result of ListProjects
    pIdx,              \* projects[pIdx] is the project being processed
    repos,             \* result of ListRepositories for it
    rIdx,              \* repos[rIdx] is the repository being processed
    artifacts,         \* the (sorted) artifact slice of that repository
    aIdx,              \* number of loop iterations done over artifacts / toDelete
    keptSnapshots,     \* keptSnapshots of RunHarborStrategy
    toDelete,          \* toDelete of the v5 main
    artifactsDeleted,  \* the deleted counter
    auditRecords,      \* the audit rows
    listCalls,         \* history: projects / repositories a listing was requested for
    deleteCalls,       \* history: the DeleteArtifact calls, in order
    decisions,         \* history: one entry per classified artifact
    failures,          \* history: number of collaborator calls that failed
    failedScopes,      \* history: projects / repositories whose listing failed
    sortMemo,          \* history: what sort.Slice returned, by repository
    prevAudit,         \* the audit rows of the preceding dry run, if any
    scan               \* state of the scan stage (BuildK8sImageSafeList)

vars == <<policy, dryRun, keepLastN, maxSnapshots, projectWhitelist,
          safeImageSet, contextMap, registry, pc, projects, pIdx, repos, rIdx,
          artifacts, aIdx, keptSnapshots, toDelete, artifactsDeleted, auditRecords,
          listCalls, deleteCalls, decisions, failures, failedScopes, sortMemo,
          prevAudit, scan>>

config == <<policy, dryRun, keepLastN, maxSnapshots, projectWhitelist,
            safeImageSet, contextMap>>

HarborAuditHeader == <<"Image", "Status", "Notes">>
K8sAuditHeader == <<"Image", "Status", "Used In Environments", "Used In Namespaces", "Notes">>

\* The scan stage is not part of a cleanup run.
ScanIdle == [pc |-> "idle"]

InitRun(pol, whitelists) ==
    /\ policy = pol
    /\ \E value \in DryRunSettings : dryRun = DryRunOf(pol, value)
    /\ \E w \in whitelists : projectWhitelist = WhitelistOf(pol, w)
    /\ \E f \in RegistryChoices(pol) : registry = RegistryOf(f)
    /\ pc = "start"
    /\ projects = <<>>
    /\ pIdx = 0
    /\ repos = <<>>
    /\ rIdx = 0
    /\ artifacts = <<>>
    /\ aIdx = 0
    /\ keptSnapshots = 0
    /\ toDelete = <<>>
    /\ artifactsDeleted = 0
    /\ auditRecords = <<>>
    /\ listCalls = {}
    /\ deleteCalls = <<>>
    /\ decisions = <<>>
    /\ failures = 0
    /\ failedScopes = {}
    /\ sortMemo = <<>>
    /\ prevAudit = <<>>
    /\ scan = ScanIdle

\* The parameters of the time-based evaluators.
TimeBasedParams ==
    /\ keepLastN \in 0..MaxKeep
    /\ maxSnapshots \in 0..MaxSnap
    /\ safeImageSet = {}
    /\ contextMap = <<>>

\* The parameters of the manifest evaluator, read from the manifest file.
ManifestParams ==
    /\ keepLastN = 0
    /\ maxSnapshots = 0
    /\ \E file \in ManifestFiles :
          /\ safeImageSet = ReadManifestFromCSV(file).safeImageSet
          /\ contextMap = ReadManifestFromCSV(file).contextMap

InitTimeBased(pol) == InitRun(pol, NoWhitelist) /\ TimeBasedParams

InitK8s == InitRun("k8s", NoWhitelist) /\ ManifestParams

InitHarbor == InitTimeBased("harbor")
InitLegacy == InitTimeBased("legacy")

Init == InitHarbor \/ InitLegacy \/ InitK8s

----------------------------------------------------------------------------
\* Shared pieces of the three loops.

curProject == projects[pIdx]
curRepo == repos[rIdx]

\* The inner loop has run to its end (the v5 main loops over toDelete).
AtRepoEnd == aIdx = Len(IF policy = "legacy" THEN toDelete ELSE artifacts)
AtProjectEnd == rIdx = Len(repos) /\ AtRepoEnd

Perms(n) == {p \in [1..n -> 1..n] : \A i \in 1..n : \A j \in 1..n : i # j => p[i] # p[j]}

\* sort.Slice(arts, PushTime After): some ordering with no later element
\* before an earlier one; the order among equal push times is not fixed.
SortedByPushTime(arts) ==
    { [k \in 1..Len(arts) |-> arts[p[k]]] : p \in
        { q \in Perms(Len(arts)) :
            \A i \in 1..Len(arts) : \A j \in 1..Len(arts) :
                i < j => ~(arts[q[j]].PushTime > arts[q[i]].PushTime) } }

\* sort.Slice is a function of its input: sorting the slice it has sorted
\* before returns the order it returned then.
SortSlice(memo, repo, arts) ==
    IF repo \in DOMAIN memo /\ memo[repo].in = arts
    THEN {memo[repo].out}
    ELSE SortedByPushTime(arts)

Remember(memo, repo, arts, sorted) ==
    [r \in DOMAIN memo \cup {repo} |->
        IF r = repo THEN [in |-> arts, out |-> sorted] ELSE memo[r]]

\* Variant: a listing error ends the run.
OnListErrorAbort == "done"

\* "continue" after a failed ListRepositories / ListArtifacts: the loop goes on.
OnListError == "loop"

TaggedOnly(arts) == SelectSeq(arts, LAMBDA a : Len(a.Tags) > 0)

\* A collaborator call returns an error / returns normally.
Fails == failures < MaxFailures /\ failures' = failures + 1
Succeeds == failures' = failures

\* Variant: the delete call is issued whatever the mode.
IssuesDeleteAlways(dry) == TRUE

\* "if !dryRun": whether the evaluator issues the DeleteArtifact call.
IssuesDelete(dry) == ~dry

\* Variant: a failed delete is counted like a successful one.
DeleteOutcomeCountsFailure(ok, count) ==
    [status |-> IF ok THEN "DELETED" ELSE "DELETE_FAILED", deleted |-> count + 1]

\* Variant: a successful delete is not counted.
DeleteOutcomeNeverCounts(ok, count) ==
    [status |-> IF ok THEN "DELETED" ELSE "DELETE_FAILED", deleted |-> count]

\* After client.DeleteArtifact: the status of the record and the counter.
DeleteOutcome(ok, count) ==
    [status  |-> IF ok THEN "DELETED" ELSE "DELETE_FAILED",
     deleted |-> IF ok THEN count + 1 ELSE count]

\* Variant: the new record takes the place of the last one.
AppendAuditOverLast(records, record) ==
    IF Len(records) > 1 THEN [records EXCEPT ![Len(records)] = record]
    ELSE Append(records, record)

\* "auditRecords = append(auditRecords, ...)"
AppendAudit(records, record) == Append(records, record)

\* The decision record of an artifact at loop index i of slice arts.
Decision(repo, arts, i, keep, status) ==
    [repo   |-> repo,
     digest |-> arts[i + 1].Digest,
     tags   |-> arts[i + 1].Tags,
     time   |-> arts[i + 1].PushTime,
     i      |-> i,
     tpos   |-> Len(TaggedOnly(SubSeq(arts, 1, i))),
     n      |-> Len(arts),
     keep   |-> keep,
     status |-> status]

\* Variant: the call names the first artifact of the slice.
DeleteCallOfFirst(digest, ok) ==
    [project |-> curProject, repo |-> curRepo, ok |-> ok,
     digest |-> IF artifacts # <<>> THEN artifacts[1].Digest ELSE digest]

\* client.DeleteArtifact(project.Name, repo.Name, art.Digest), and how it ended.
DeleteCall(digest, ok) == [project |-> curProject, repo |-> curRepo, digest |-> digest, ok |-> ok]

----------------------------------------------------------------------------
\* RunHarborStrategy: the time-based policy.

\* strings.Contains(strings.ToUpper(tagName), "SNAPSHOT")
IsSnapshot(tagName) == Contains(ToUpper(tagName), SNAPSHOT)

\* Variant: the window test is off by one.
HarborKeepOffByOne(i, isSnapshot, kept) ==
    /\ i <= keepLastN
    /\ isSnapshot => kept < maxSnapshots

\* Variant: the snapshot cap is not applied.
HarborKeepNoCap(i, isSnapshot, kept) == i < keepLastN

\* Variant: a dry run previews the window only and leaves the cap to the live run.
HarborKeepDryWindowOnly(i, isSnapshot, kept) ==
    /\ i < keepLastN
    /\ (~dryRun /\ isSnapshot) => kept < maxSnapshots

\* Variant: the window counts the artifacts kept so far, as the v5 loop does.
HarborKeepByCount(i, isSnapshot, kept) ==
    /\ Cardinality({k \in 1..Len(decisions) :
                        decisions[k].repo = curRepo /\ decisions[k].keep}) < keepLastN
    /\ isSnapshot => kept < maxSnapshots

\* The keep decision for the artifact at loop index i.
HarborKeep(i, isSnapshot, kept) ==
    /\ i < keepLastN
    /\ isSnapshot => kept < maxSnapshots

HarborFullImageName(repo, tagName) == BaseURL \o Slash \o repo \o Colon \o tagName

KeptNote(n, kept, max) ==
    [text |-> "Kept as part of the newest %d artifacts (snapshot count: %d/%d)",
     args |-> <<n, kept, max>>]

ExpiredNote == [text |-> "Expired artifact", args |-> <<>>]

Harbor_ListProjects ==
    /\ policy = "harbor"
    /\ pc = "start"
    /\ auditRecords' = <<HarborAuditHeader>>
    /\ \/ projects' = ProjectNames /\ pc' = "loop" /\ Succeeds
       \/ projects' = <<>> /\ pc' = "fatal" /\ Fails
    /\ UNCHANGED <<config, scan, prevAudit, sortMemo, failedScopes, registry, pIdx, repos, rIdx, artifacts, aIdx, keptSnapshots,
                   toDelete, artifactsDeleted, listCalls, deleteCalls, decisions>>

Harbor_Project ==
    /\ policy = "harbor"
    /\ pc = "loop"
    /\ AtProjectEnd
    /\ pIdx < Len(projects)
    /\ pIdx' = pIdx + 1
    /\ rIdx' = 0
    /\ artifacts' = <<>>
    /\ aIdx' = 0
    /\ IF ~InWhitelist(projectWhitelist, projects[pIdx + 1])
       THEN /\ repos' = <<>>
            /\ Succeeds
            /\ UNCHANGED <<pc, listCalls, failedScopes>>
       ELSE /\ listCalls' = listCalls \cup {projects[pIdx + 1]}
            /\ \/ /\ repos' = ReposOf(projects[pIdx + 1])
                  /\ Succeeds
                  /\ UNCHANGED <<pc, failedScopes>>
               \/ /\ repos' = <<>>
                  /\ Fails
                  /\ pc' = OnListError
                  /\ failedScopes' = failedScopes \cup {projects[pIdx + 1]}
    /\ UNCHANGED <<config, scan, prevAudit, sortMemo, registry, projects, keptSnapshots, toDelete,
                   artifactsDeleted, auditRecords, deleteCalls, decisions>>

Harbor_Repo ==
    /\ policy = "harbor"
    /\ pc = "loop"
    /\ AtRepoEnd
    /\ rIdx < Len(repos)
    /\ rIdx' = rIdx + 1
    /\ aIdx' = 0
    /\ keptSnapshots' = 0
    /\ listCalls' = listCalls \cup {repos[rIdx + 1]}
    /\ \/ /\ \E sorted \in SortSlice(sortMemo, repos[rIdx + 1], registry[repos[rIdx + 1]]) :
                /\ artifacts' = sorted
                /\ sortMemo' = Remember(sortMemo, repos[rIdx + 1],
                                        registry[repos[rIdx + 1]], sorted)
          /\ Succeeds
          /\ UNCHANGED <<pc, failedScopes>>
       \/ /\ artifacts' = <<>>
          /\ Fails
          /\ pc' = OnListError
          /\ failedScopes' = failedScopes \cup {repos[rIdx + 1]}
          /\ UNCHANGED sortMemo
    /\ UNCHANGED <<config, scan, prevAudit, registry, projects, pIdx, repos, toDelete,
                   artifactsDeleted, auditRecords, deleteCalls, decisions>>

Harbor_Artifact ==
    /\ policy = "harbor"
    /\ pc = "loop"
    /\ aIdx < Len(artifacts)
    /\ aIdx' = aIdx + 1
    /\ LET art == artifacts[aIdx + 1] IN
       IF Len(art.Tags) = 0
       THEN UNCHANGED <<registry, keptSnapshots, artifactsDeleted, auditRecords,
                        deleteCalls, decisions, failures>>
       ELSE
         LET tagName       == art.Tags[1]
             fullImageName == HarborFullImageName(curRepo, tagName)
             isSnapshot    == IsSnapshot(tagName)
             keep          == HarborKeep(aIdx, isSnapshot, keptSnapshots)
             kept          == IF keep /\ isSnapshot THEN keptSnapshots + 1 ELSE keptSnapshots
         IN
         /\ keptSnapshots' = kept
         /\ IF keep
            THEN /\ auditRecords' = AppendAudit(auditRecords,
                        <<fullImageName, "KEPT", KeptNote(keepLastN, kept, maxSnapshots)>>)
                 /\ decisions' = Append(decisions, Decision(curRepo, artifacts, aIdx, TRUE, "KEPT"))
                 /\ UNCHANGED <<registry, artifactsDeleted, deleteCalls, failures>>
            ELSE IF ~IssuesDelete(dryRun)
            THEN /\ artifactsDeleted' = artifactsDeleted + 1
                 /\ auditRecords' = AppendAudit(auditRecords,
                        <<fullImageName, "TO BE DELETED", ExpiredNote>>)
                 /\ decisions' = Append(decisions,
                        Decision(curRepo, artifacts, aIdx, FALSE, "TO BE DELETED"))
                 /\ UNCHANGED <<registry, deleteCalls, failures>>
            ELSE \E ok \in BOOLEAN :
                    LET out == DeleteOutcome(ok, artifactsDeleted) IN
                    /\ IF ok THEN Succeeds ELSE Fails
                    /\ deleteCalls' = Append(deleteCalls, DeleteCall(art.Digest, ok))
                    /\ registry' = IF ok THEN RemoveArtifact(registry, curRepo, art.Digest)
                                   ELSE registry
                    /\ artifactsDeleted' = out.deleted
                    /\ auditRecords' = AppendAudit(auditRecords,
                           <<fullImageName, out.status, ExpiredNote>>)
                    /\ decisions' = Append(decisions,
                           Decision(curRepo, artifacts, aIdx, FALSE, out.status))
    /\ UNCHANGED <<config, scan, prevAudit, sortMemo, failedScopes, pc, projects, pIdx, repos, rIdx, artifacts, toDelete, listCalls>>

Harbor_Return ==
    /\ policy = "harbor"
    /\ pc = "loop"
    /\ AtProjectEnd
    /\ pIdx = Len(projects)
    /\ pc' = "done"
    /\ UNCHANGED <<config, scan, prevAudit, sortMemo, failedScopes, registry, projects, pIdx, repos, rIdx, artifacts, aIdx,
                   keptSnapshots, toDelete, artifactsDeleted, auditRecords, listCalls,
                   deleteCalls, decisions, failures>>

----------------------------------------------------------------------------
\* RunKubernetesStrategy: the manifest-based policy.

\* The repositories the manifest mentions on this registry host.
InUseRepoNames(safeSet, harborDomain) ==
    { LET repoAndTag == TrimPrefix(safeImage, harborDomain \o Slash)
      IN  SubSeq(repoAndTag, 1, LastIndex(repoAndTag, ":"))
      : safeImage \in
          { img \in safeSet :
              /\ HasPrefix(img, harborDomain \o Slash)
              /\ LastIndex(TrimPrefix(img, harborDomain \o Slash), ":") # -1 } }

\* Variant: no repository is skipped.
SkipsRepoNever(repoName, inUseRepoNames) == FALSE

\* "if _, found := inUseRepoNames[repo.Name]; !found { continue }"
SkipsRepo(repoName, inUseRepoNames) == repoName \notin inUseRepoNames

K8sFullImageName(repo, tagName) == HarborDomain \o Slash \o repo \o Colon \o tagName

\* "_, isSafe := safeImageSet[fullImageName]"
IsSafe(fullImageName, safeSet) == fullImageName \in safeSet

\* contextMap[fullImageName]; a missing key reads as the empty slice.
ContextsOf(ctxMap, fullImageName) ==
    IF fullImageName \in DOMAIN ctxMap THEN ctxMap[fullImageName] ELSE <<>>

JoinedEnvs(contexts) == Join([k \in 1..Len(contexts) |-> contexts[k].Env], Comma)

\* Variant: the namespace column repeats the environments.
JoinedNamespacesFromEnv(contexts) == Join([k \in 1..Len(contexts) |-> contexts[k].Env], Comma)

JoinedNamespaces(contexts) == Join([k \in 1..Len(contexts) |-> contexts[k].Namespace], Comma)

Dash == <<"-">>

K8s_ListProjects ==
    /\ policy = "k8s"
    /\ pc = "start"
    /\ auditRecords' = <<K8sAuditHeader>>
    /\ \/ projects' = ProjectNames /\ pc' = "loop" /\ Succeeds
       \/ projects' = <<>> /\ pc' = "fatal" /\ Fails
    /\ UNCHANGED <<config, scan, prevAudit, sortMemo, failedScopes, registry, pIdx, repos, rIdx, artifacts, aIdx, keptSnapshots,
                   toDelete, artifactsDeleted, listCalls, deleteCalls, decisions>>

K8s_Project ==
    /\ policy = "k8s"
    /\ pc = "loop"
    /\ AtProjectEnd
    /\ pIdx < Len(projects)
    /\ pIdx' = pIdx + 1
    /\ rIdx' = 0
    /\ artifacts' = <<>>
    /\ aIdx' = 0
    /\ IF ~InWhitelist(projectWhitelist, projects[pIdx + 1])
       THEN /\ repos' = <<>>
            /\ Succeeds
            /\ UNCHANGED <<pc, listCalls, failedScopes>>
       ELSE /\ listCalls' = listCalls \cup {projects[pIdx + 1]}
            /\ \/ /\ repos' = ReposOf(projects[pIdx + 1])
                  /\ Succeeds
                  /\ UNCHANGED <<pc, failedScopes>>
               \/ /\ repos' = <<>>
                  /\ Fails
                  /\ pc' = OnListError
                  /\ failedScopes' = failedScopes \cup {projects[pIdx + 1]}
    /\ UNCHANGED <<config, scan, prevAudit, sortMemo, registry, projects, keptSnapshots, toDelete,
                   artifactsDeleted, auditRecords, deleteCalls, decisions>>

K8s_Repo ==
    /\ policy = "k8s"
    /\ pc = "loop"
    /\ AtRepoEnd
    /\ rIdx < Len(repos)
    /\ rIdx' = rIdx + 1
    /\ aIdx' = 0
    /\ IF SkipsRepo(repos[rIdx + 1], InUseRepoNames(safeImageSet, HarborDomain))
       THEN /\ artifacts' = <<>>
            /\ UNCHANGED <<pc, listCalls, failures, failedScopes>>
       ELSE /\ listCalls' = listCalls \cup {repos[rIdx + 1]}
            /\ \/ /\ artifacts' = registry[repos[rIdx + 1]]
                  /\ Succeeds
                  /\ UNCHANGED <<pc, failedScopes>>
               \/ /\ artifacts' = <<>>
                  /\ Fails
                  /\ pc' = OnListError
                  /\ failedScopes' = failedScopes \cup {repos[rIdx + 1]}
    /\ UNCHANGED <<config, scan, prevAudit, sortMemo, registry, projects, pIdx, repos,
                   keptSnapshots, toDelete, artifactsDeleted, auditRecords, deleteCalls,
                   decisions>>

K8s_Artifact ==
    /\ policy = "k8s"
    /\ pc = "loop"
    /\ aIdx < Len(artifacts)
    /\ aIdx' = aIdx + 1
    /\ LET art == artifacts[aIdx + 1] IN
       IF Len(art.Tags) = 0
       THEN UNCHANGED <<registry, artifactsDeleted, auditRecords, deleteCalls, decisions,
                        failures>>
       ELSE
         LET tagName       == art.Tags[1]
             fullImageName == K8sFullImageName(curRepo, tagName)
             contexts      == ContextsOf(contextMap, fullImageName)
             notFound(st)  == <<fullImageName, st, Dash, Dash, "Not found in K8s manifest file">>
         IN
         IF IsSafe(fullImageName, safeImageSet)
         THEN /\ auditRecords' = AppendAudit(auditRecords,
                     <<fullImageName, "KEPT", JoinedEnvs(contexts),
                       JoinedNamespaces(contexts), "In use by Kubernetes">>)
              /\ decisions' = Append(decisions, Decision(curRepo, artifacts, aIdx, TRUE, "KEPT"))
              /\ UNCHANGED <<registry, artifactsDeleted, deleteCalls, failures>>
         ELSE IF ~IssuesDelete(dryRun)
         THEN /\ artifactsDeleted' = artifactsDeleted + 1
              /\ auditRecords' = AppendAudit(auditRecords, notFound("TO BE DELETED"))
              /\ decisions' = Append(decisions,
                     Decision(curRepo, artifacts, aIdx, FALSE, "TO BE DELETED"))
              /\ UNCHANGED <<registry, deleteCalls, failures>>
         ELSE \E ok \in BOOLEAN :
                 LET out == DeleteOutcome(ok, artifactsDeleted) IN
                 /\ IF ok THEN Succeeds ELSE Fails
                 /\ deleteCalls' = Append(deleteCalls, DeleteCall(art.Digest, ok))
                 /\ registry' = IF ok THEN RemoveArtifact(registry, curRepo, art.Digest)
                                ELSE registry
                 /\ artifactsDeleted' = out.deleted
                 /\ auditRecords' = AppendAudit(auditRecords, notFound(out.status))
                 /\ decisions' = Append(decisions,
                        Decision(curRepo, artifacts, aIdx, FALSE, out.status))
    /\ UNCHANGED <<config, scan, prevAudit, sortMemo, failedScopes, pc, projects, pIdx, repos, rIdx, artifacts, keptSnapshots,
                   toDelete, listCalls>>

K8s_Return ==
    /\ policy = "k8s"
    /\ pc = "loop"
    /\ AtProjectEnd
    /\ pIdx = Len(projects)
    /\ pc' = "done"
    /\ UNCHANGED <<config, scan, prevAudit, sortMemo, failedScopes, registry, projects, pIdx, repos, rIdx, artifacts, aIdx,
                   keptSnapshots, toDelete, artifactsDeleted, auditRecords, listCalls,
                   deleteCalls, decisions, failures>>

----------------------------------------------------------------------------
\* The v5 main (second half of cmd/harbor-cleaner/main.go).

\* strings.Contains(tagName, "SNAPSHOT")
LegacyIsSnapshot(tagName) == Contains(tagName, SNAPSHOT)

\* The keep decision of the v5 loop, from its two counters.
LegacyKeep(keptCount, isSnapshot, snapshotKeptCount) ==
    /\ keptCount < keepLastN
    /\ isSnapshot => snapshotKeptCount < maxSnapshots

\* The v5 classification loop over taggedArtifacts: the keep flags, in order.
RECURSIVE LegacyWalk(_, _, _, _)
LegacyWalk(tagged, k, keptCount, snapshotKeptCount) ==
    IF k > Len(tagged) THEN <<>>
    ELSE LET isSnapshot == LegacyIsSnapshot(tagged[k].Tags[1])
             keep       == LegacyKeep(keptCount, isSnapshot, snapshotKeptCount)
         IN  <<keep>> \o
             LegacyWalk(tagged, k + 1,
                        IF keep THEN keptCount + 1 ELSE keptCount,
                        IF keep /\ isSnapshot THEN snapshotKeptCount + 1
                        ELSE snapshotKeptCount)

RECURSIVE LegacyToDelete(_, _, _)
LegacyToDelete(tagged, flags, k) ==
    IF k > Len(tagged) THEN <<>>
    ELSE (IF flags[k] THEN <<>> ELSE <<tagged[k]>>) \o LegacyToDelete(tagged, flags, k + 1)

LegacyDecisions(repo, tagged, flags) ==
    [k \in 1..Len(tagged) |->
        Decision(repo, tagged, k - 1, flags[k], IF flags[k] THEN "KEEP" ELSE "DELETE")]

Legacy_ListProjects ==
    /\ policy = "legacy"
    /\ pc = "start"
    /\ \/ projects' = ProjectNames /\ pc' = "loop" /\ Succeeds
       \/ projects' = <<>> /\ pc' = "fatal" /\ Fails
    /\ UNCHANGED <<config, scan, prevAudit, sortMemo, failedScopes, registry, pIdx, repos, rIdx, artifacts, aIdx, keptSnapshots,
                   toDelete, artifactsDeleted, auditRecords, listCalls, deleteCalls,
                   decisions>>

Legacy_Project ==
    /\ policy = "legacy"
    /\ pc = "loop"
    /\ AtProjectEnd
    /\ pIdx < Len(projects)
    /\ pIdx' = pIdx + 1
    /\ rIdx' = 0
    /\ toDelete' = <<>>
    /\ aIdx' = 0
    /\ IF ~InWhitelist(projectWhitelist, projects[pIdx + 1])
       THEN /\ repos' = <<>>
            /\ Succeeds
            /\ UNCHANGED <<pc, listCalls, failedScopes>>
       ELSE /\ listCalls' = listCalls \cup {projects[pIdx + 1]}
            /\ \/ /\ repos' = ReposOf(projects[pIdx + 1])
                  /\ Succeeds
                  /\ UNCHANGED <<pc, failedScopes>>
               \/ /\ repos' = <<>>
                  /\ Fails
                  /\ pc' = OnListError
                  /\ failedScopes' = failedScopes \cup {projects[pIdx + 1]}
    /\ UNCHANGED <<config, scan, prevAudit, sortMemo, registry, projects, artifacts, keptSnapshots,
                   artifactsDeleted, auditRecords, deleteCalls, decisions>>

Legacy_Repo ==
    /\ policy = "legacy"
    /\ pc = "loop"
    /\ AtRepoEnd
    /\ rIdx < Len(repos)
    /\ rIdx' = rIdx + 1
    /\ aIdx' = 0
    /\ listCalls' = listCalls \cup {repos[rIdx + 1]}
    /\ \/ /\ Succeeds
          /\ UNCHANGED <<pc, failedScopes>>
          /\ LET taggedArtifacts == TaggedOnly(registry[repos[rIdx + 1]]) IN
             IF Len(taggedArtifacts) <= keepLastN
             THEN /\ toDelete' = <<>>
                  /\ UNCHANGED decisions
             ELSE \E sorted \in SortedByPushTime(taggedArtifacts) :
                     LET flags == LegacyWalk(sorted, 1, 0, 0) IN
                     /\ toDelete' = LegacyToDelete(sorted, flags, 1)
                     /\ decisions' = decisions \o LegacyDecisions(repos[rIdx + 1], sorted, flags)
       \/ /\ Fails
          /\ pc' = OnListError
          /\ failedScopes' = failedScopes \cup {repos[rIdx + 1]}
          /\ toDelete' = <<>>
          /\ UNCHANGED decisions
    /\ UNCHANGED <<config, scan, prevAudit, sortMemo, registry, projects, pIdx, repos,
                   artifacts, keptSnapshots, artifactsDeleted, auditRecords, deleteCalls>>

Legacy_Delete ==
    /\ policy = "legacy"
    /\ pc = "loop"
    /\ aIdx < Len(toDelete)
    /\ aIdx' = aIdx + 1
    /\ LET art == toDelete[aIdx + 1] IN
       IF ~IssuesDelete(dryRun)
       THEN /\ artifactsDeleted' = artifactsDeleted + 1
            /\ UNCHANGED <<registry, deleteCalls, failures>>
       ELSE \/ /\ Succeeds
               /\ deleteCalls' = Append(deleteCalls, DeleteCall(art.Digest, TRUE))
               /\ registry' = RemoveArtifact(registry, curRepo, art.Digest)
               /\ artifactsDeleted' = artifactsDeleted + 1
            \/ /\ Fails
               /\ deleteCalls' = Append(deleteCalls, DeleteCall(art.Digest, FALSE))
               /\ UNCHANGED <<registry, artifactsDeleted>>
    /\ UNCHANGED <<config, scan, prevAudit, sortMemo, failedScopes, pc, projects, pIdx, repos, rIdx, artifacts, keptSnapshots,
                   toDelete, auditRecords, listCalls, decisions>>

Legacy_Return ==
    /\ policy = "legacy"
    /\ pc = "loop"
    /\ AtProjectEnd
    /\ pIdx = Len(projects)
    /\ pc' = "done"
    /\ UNCHANGED <<config, scan, prevAudit, sortMemo, failedScopes, registry, projects, pIdx, repos, rIdx, artifacts, aIdx,
                   keptSnapshots, toDelete, artifactsDeleted, auditRecords, listCalls,
                   deleteCalls, decisions, failures>>

----------------------------------------------------------------------------
\* The scan stage: getSafeImagesForWorkload.

\* No cleanup policy is running during the scan stage.
CleanupIdle ==
    /\ policy = "scan"
    /\ dryRun = FALSE
    /\ keepLastN = 0
    /\ maxSnapshots = 0
    /\ projectWhitelist = ParseWhitelist(<<>>)
    /\ safeImageSet = {}
    /\ contextMap = <<>>
    /\ registry = RegistryOf(<<>>)
    /\ pc = "idle"
    /\ projects = <<>>
    /\ pIdx = 0
    /\ repos = <<>>
    /\ rIdx = 0
    /\ artifacts = <<>>
    /\ aIdx = 0
    /\ keptSnapshots = 0
    /\ toDelete = <<>>
    /\ artifactsDeleted = 0
    /\ auditRecords = <<>>
    /\ listCalls = {}
    /\ deleteCalls = <<>>
    /\ decisions = <<>>
    /\ failures = 0
    /\ failedScopes = {}
    /\ sortMemo = <<>>
    /\ prevAudit = <<>>

cleanupVars == <<policy, dryRun, keepLastN, maxSnapshots, projectWhitelist, safeImageSet,
                 contextMap, registry, pc, projects, pIdx, repos, rIdx, artifacts, aIdx,
                 keptSnapshots, toDelete, artifactsDeleted, auditRecords, listCalls,
                 deleteCalls, decisions, failures, failedScopes, sortMemo, prevAudit>>

\* The images the cluster's pod templates reference.
ClusterImages == {ImgDA1, ImgDA2, ImgOC1}

\* Spec.Template.Spec.Containers of a workload, as the images of the containers.
ContainerLists == UNION { [1..n -> ClusterImages] : n \in 1..MaxContainers }

\* appsv1.ReplicaSet: its containers and creation time.
ReplicaSets == [Containers : [1..1 -> ClusterImages], CreationTimestamp : 1..MaxTime]

ReplicaSetLists == UNION { [1..n -> ReplicaSets] : n \in 0..MaxRS }

\* appsv1.Deployment, with the replica sets its selector matches.
Deployments ==
    [Name : {<<"w">>}, Containers : ContainerLists, CreationTimestamp : 1..MaxTime,
     rsList : ReplicaSetLists]

\* env.Keep
KeepValues == -1..MaxKeepN

\* (env.Name, namespace) pairs
ScanContexts == { [Env |-> c[1], Namespace |-> c[2]] : c \in ManifestContexts }

\* revisionInfo entries of one pod template
RevisionsOf(containers, time) ==
    [k \in 1..Len(containers) |-> [Image |-> containers[k], Time |-> time]]

RECURSIVE ReplicaSetRevisions(_, _)
ReplicaSetRevisions(items, k) ==
    IF k > Len(items) THEN <<>>
    ELSE RevisionsOf(items[k].Containers, items[k].CreationTimestamp)
         \o ReplicaSetRevisions(items, k + 1)

\* historicalRevisions before sorting: the current spec, then the replica sets.
HistoricalRevisions(deployment, rsItems) ==
    RevisionsOf(deployment.Containers, deployment.CreationTimestamp)
    \o ReplicaSetRevisions(rsItems, 1)

\* sort.Slice(historicalRevisions, Time After): any order with no later
\* revision behind an earlier one.
SortedByTime(revs) ==
    { [k \in 1..Len(revs) |-> revs[p[k]]] : p \in
        { q \in Perms(Len(revs)) :
            \A i \in 1..Len(revs) : \A j \in 1..Len(revs) :
                i < j => ~(revs[q[j]].Time > revs[q[i]].Time) } }

\* Variant: the bound is tested with <=.
EmitsRevisionOffByOne(image, safeImages, keepN) ==
    /\ image \notin {safeImages[j].Image : j \in 1..Len(safeImages)}
    /\ Len(safeImages) <= keepN

\* "if !seen { if len(safeImages) < keepN {": the revision adds a record.
EmitsRevision(image, safeImages, keepN) ==
    /\ image \notin {safeImages[j].Image : j \in 1..Len(safeImages)}
    /\ Len(safeImages) < keepN

\* The loop over the sorted revisions.
RECURSIVE WalkRevisions(_, _, _, _, _, _)
WalkRevisions(revs, k, safeImages, envName, namespace, keepN) ==
    IF k > Len(revs) THEN safeImages
    ELSE WalkRevisions(revs, k + 1,
            IF EmitsRevision(revs[k].Image, safeImages, keepN)
            THEN Append(safeImages,
                        [Image |-> revs[k].Image, Env |-> envName, Namespace |-> namespace])
            ELSE safeImages,
            envName, namespace, keepN)

\* getSafeImagesForWorkload once the replica sets are listed: the results
\* the unspecified order of equal timestamps allows.
GetSafeImagesForWorkload(envName, namespace, deployment, rsItems, keepN) ==
    { WalkRevisions(sorted, 1, <<>>, envName, namespace, keepN) :
        sorted \in SortedByTime(HistoricalRevisions(deployment, rsItems)) }

\* One call of getSafeImagesForWorkload.
InitWorkload ==
    /\ CleanupIdle
    /\ \E d \in Deployments : \E c \in ScanContexts : \E keepN \in KeepValues :
          scan = [pc |-> "call", deployment |-> d, envName |-> c.Env,
                  namespace |-> c.Namespace, keepN |-> keepN,
                  listed |-> FALSE, safeImages |-> <<>>]

\* The selector construction or the replica-set listing fails: return nil.
Workload_ListFails ==
    /\ scan.pc = "call"
    /\ scan' = [scan EXCEPT !.pc = "returned", !.listed = FALSE, !.safeImages = <<>>]
    /\ UNCHANGED cleanupVars

\* The replica sets are listed and the safe images computed.
Workload_Returns ==
    /\ scan.pc = "call"
    /\ \E result \in GetSafeImagesForWorkload(scan.envName, scan.namespace,
                          scan.deployment, scan.deployment.rsList, scan.keepN) :
          scan' = [scan EXCEPT !.pc = "returned", !.listed = TRUE, !.safeImages = result]
    /\ UNCHANGED cleanupVars

NextWorkload == Workload_ListFails \/ Workload_Returns

SpecWorkload == InitWorkload /\ [][NextWorkload]_vars

----------------------------------------------------------------------------
\* The scan stage: workload name filters.

\* The first index at or after pIdx (0-based) that holds no '*'.
RECURSIVE SkipStars(_, _)
SkipStars(pattern, patIdx) ==
    IF patIdx < Len(pattern) /\ pattern[patIdx + 1] = "*" THEN SkipStars(pattern, patIdx + 1)
    ELSE patIdx

\* matchWildcardHelper, with its 0-based indices.
RECURSIVE matchWildcardHelper(_, _, _, _)
matchWildcardHelper(pattern, str, patIdx, strIdx) ==
    IF patIdx >= Len(pattern) THEN strIdx = Len(str)
    ELSE IF strIdx >= Len(str) THEN SkipStars(pattern, patIdx) = Len(pattern)
    ELSE IF pattern[patIdx + 1] = "*"
         THEN LET next == SkipStars(pattern, patIdx)
              IN  \/ next = Len(pattern)
                  \/ \E i \in strIdx..Len(str) : matchWildcardHelper(pattern, str, next, i)
    ELSE IF pattern[patIdx + 1] = "?" \/ pattern[patIdx + 1] = str[strIdx + 1]
         THEN matchWildcardHelper(pattern, str, patIdx + 1, strIdx + 1)
    ELSE FALSE

\* Variant: the pattern need only match a prefix of the name.
MatchWildcardPrefix(pattern, str) == matchWildcardHelper(pattern \o <<"*">>, str, 0, 0)

MatchWildcard(pattern, str) == matchWildcardHelper(pattern, str, 0, 0)

\* Variant: the whitelist is consulted before the blacklist.
ShouldProcessWorkloadWhitelistFirst(workloadName, whitelist, blacklist) ==
    IF \E k \in 1..Len(whitelist) : MatchWildcard(whitelist[k], workloadName) THEN TRUE
    ELSE IF Len(whitelist) > 0 THEN FALSE
    ELSE ~\E k \in 1..Len(blacklist) : MatchWildcard(blacklist[k], workloadName)

ShouldProcessWorkload(workloadName, whitelist, blacklist) ==
    IF \E k \in 1..Len(blacklist) : MatchWildcard(blacklist[k], workloadName) THEN FALSE
    ELSE IF Len(whitelist) > 0
         THEN \E k \in 1..Len(whitelist) : MatchWildcard(whitelist[k], workloadName)
    ELSE TRUE

----------------------------------------------------------------------------
\* The manifest file as text: encoding/csv as WriteManifestToCSV and
\* ReadManifestFromCSV use it (comma delimiter, one record per line).

Quote == <<"\"">>

\* csv.Writer.fieldNeedsQuotes
FieldNeedsQuotes(field) ==
    /\ field # <<>>
    /\ \/ field = <<"\\", ".">>
       \/ \E k \in 1..Len(field) : field[k] \in {",", "\"", "\n", "\r"}
       \/ IsSpace(field[1])

\* The field with every quote doubled.
RECURSIVE DoubleQuotes(_)
DoubleQuotes(field) ==
    IF field = <<>> THEN <<>>
    ELSE (IF field[1] = "\"" THEN Quote \o Quote ELSE <<field[1]>>) \o DoubleQuotes(Tail(field))

CsvField(field) ==
    IF FieldNeedsQuotes(field) THEN Quote \o DoubleQuotes(field) \o Quote ELSE field

\* csv.Writer.Write: one line, without its line end.
CsvWrite(record) == Join([k \in 1..Len(record) |-> CsvField(record[k])], Comma)

\* csv.Reader on one line: fields read so far, the field being read, and
\* whether the position is inside a quoted field.
RECURSIVE CsvParse(_, _, _, _, _)
CsvParse(line, k, fields, cur, quoted) ==
    IF k > Len(line) THEN Append(fields, cur)
    ELSE IF quoted
         THEN IF line[k] = "\""
              THEN IF k < Len(line) /\ line[k + 1] = "\""
                   THEN CsvParse(line, k + 2, fields, Append(cur, "\""), TRUE)
                   ELSE CsvParse(line, k + 1, fields, cur, FALSE)
              ELSE CsvParse(line, k + 1, fields, Append(cur, line[k]), TRUE)
    ELSE IF line[k] = "," THEN CsvParse(line, k + 1, Append(fields, cur), <<>>, FALSE)
    ELSE IF line[k] = "\"" /\ cur = <<>> THEN CsvParse(line, k + 1, fields, cur, TRUE)
    ELSE CsvParse(line, k + 1, fields, Append(cur, line[k]), FALSE)

CsvRead(line) == CsvParse(line, 1, <<>>, <<>>, FALSE)

\* WriteManifestToCSV: the header line, then one line per record.
WriteManifestToCSV(records) ==
    <<CsvWrite(ManifestHeader)>>
    \o [k \in 1..Len(records) |->
           CsvWrite(<<records[k].Image, records[k].Env, records[k].Namespace>>)]

\* reader.ReadAll: the records of the non-empty lines.
CsvReadAll(lines) ==
    LET kept == SelectSeq(lines, LAMBDA l : l # <<>>)
    IN  [k \in 1..Len(kept) |-> CsvRead(kept[k])]

\* reader.ReadAll fails when a record has not the field count of the first.
CsvReadAllFails(lines) ==
    LET records == CsvReadAll(lines)
    IN  \E k \in 1..Len(records) : Len(records[k]) # Len(records[1])

\* Manifest files as an operator may have left them: any header, rows with
\* padded or empty images, short and long rows, empty lines.
RawImages == { ImgDA1, <<" ">> \o ImgDA1, ImgOC1, <<>> }

RawContexts == { << <<"p">>, <<"n">> >>, << <<"q", ",", "r">>, <<"m", " ">> >> }

RawRecords ==
    { <<image, c[1], c[2]>> : image \in RawImages, c \in RawContexts }
    \cup { <<ImgDA1, <<"p">>>>, <<ImgDA1, <<"p">>, <<"n">>, <<"x">>>> }

RawHeaders ==
    { ManifestHeader, <<ManifestHeader[1], ManifestHeader[2]>>,
      ManifestHeader \o << <<"x">> >> }

RawLines == { CsvWrite(record) : record \in RawRecords } \cup { <<>> }

RawFiles ==
    { <<>> } \cup
    UNION { { <<CsvWrite(header)>> \o rows : header \in RawHeaders, rows \in [1..n -> RawLines] }
            : n \in 0..MaxRows }

----------------------------------------------------------------------------
\* The scan stage: BuildK8sImageSafeList, then the manifest written and read.

\* cfg.Environments: two environments, the first with two namespaces.
Environment(name, namespaces, keep, filter) ==
    [Name |-> name, Namespaces |-> namespaces, Keep |-> keep,
     PodWhitelist |-> filter.whitelist, PodBlacklist |-> filter.blacklist]

\* (keep of the first environment, keep of the second)
KeepPairs == { <<1, 1>>, <<MaxKeepN, 1>>, <<0, MaxKeepN>> }

\* pod-whitelist / pod-blacklist: none, or "w*" without "?1"
PodFilters ==
    { [whitelist |-> <<>>, blacklist |-> <<>>],
      [whitelist |-> << <<"w", "*">> >>, blacklist |-> << <<"?", "1">> >>] }

EnvironmentChoices ==
    { << Environment(<<"p">>, << <<"n">>, <<"m">> >>, k[1], f),
         Environment(<<"q", ",", "r">>, << <<"n">> >>, k[2], f) >>
      : k \in KeepPairs, f \in PodFilters }

\* (environment, namespace) index pairs, in scan order
ScanSlots == << <<1, 1>>, <<1, 2>>, <<2, 1>> >>

\* A pod template's image the cluster accepts although it is only white space.
ImgBlank == <<" ">>

\* Deployments of the scanned clusters: one container, at most one replica
\* set, created after the deployment.
ScanDeployments ==
    << [Containers |-> <<ImgDA1>>, CreationTimestamp |-> 1, rsList |-> <<>>],
       [Containers |-> <<ImgDA1>>, CreationTimestamp |-> 1,
        rsList |-> << [Containers |-> <<ImgOC1>>, CreationTimestamp |-> 2] >>],
       [Containers |-> <<ImgOC1>>, CreationTimestamp |-> 1, rsList |-> <<>>],
       [Containers |-> <<ImgOC1>>, CreationTimestamp |-> 1,
        rsList |-> << [Containers |-> <<ImgDA1>>, CreationTimestamp |-> 2] >>],
       [Containers |-> <<ImgBlank>>, CreationTimestamp |-> 1, rsList |-> <<>>] >>

\* Stateful sets: their containers.
ScanStatefulSets ==
    << [Containers |-> <<ImgDA1>>], [Containers |-> <<ImgOC1>>],
       [Containers |-> <<ImgDA1, ImgOC1>>] >>

WorkloadSpecs ==
    [slot : 1..Len(ScanSlots), kind : {1}, content : 1..Len(ScanDeployments)]
    \cup [slot : 1..Len(ScanSlots), kind : {2}, content : 1..Len(ScanStatefulSets)]

WorkloadRank(w) == w.slot * 100 + w.kind * 10 + w.content

\* Cluster contents, up to the naming of the workloads.
ClusterChoices ==
    UNION { { f \in [1..k -> WorkloadSpecs] :
                \A i \in 1..k : \A j \in 1..k : i < j => WorkloadRank(f[i]) <= WorkloadRank(f[j]) }
            : k \in 0..MaxWorkloads }

\* The workload a cluster entry stands for; entry n is named by n.
WorkloadOf(f, n) ==
    IF f[n].kind = 1
    THEN [Name |-> <<"w", Digit[n]>>,
          Containers |-> ScanDeployments[f[n].content].Containers,
          CreationTimestamp |-> ScanDeployments[f[n].content].CreationTimestamp,
          rsList |-> ScanDeployments[f[n].content].rsList]
    ELSE [Name |-> <<"s", Digit[n]>>,
          Containers |-> ScanStatefulSets[f[n].content].Containers]

\* Deployments(ns).List / StatefulSets(ns).List: the items, in listing order.
RECURSIVE WorkloadsIn(_, _, _, _)
WorkloadsIn(f, slot, kind, n) ==
    IF n > Len(f) THEN <<>>
    ELSE (IF f[n].slot = slot /\ f[n].kind = kind THEN <<WorkloadOf(f, n)>> ELSE <<>>)
         \o WorkloadsIn(f, slot, kind, n + 1)

SlotOf(e, n) == CHOOSE k \in 1..Len(ScanSlots) : ScanSlots[k] = <<e, n>>

\* Variant: a later discovery of an image replaces the record.
MergeImageLastWins(map, imgInfo) ==
    [k \in DOMAIN map \cup {imgInfo.Image} |-> IF k = imgInfo.Image THEN imgInfo ELSE map[k]]

\* "if _, exists := globalSafeListMap[imgInfo.Image]; !exists { ... = imgInfo }"
MergeImage(map, imgInfo) ==
    IF imgInfo.Image \in DOMAIN map THEN map
    ELSE [k \in DOMAIN map \cup {imgInfo.Image} |->
             IF k = imgInfo.Image THEN imgInfo ELSE map[k]]

RECURSIVE MergeAll(_, _, _)
MergeAll(map, infos, k) ==
    IF k > Len(infos) THEN map
    ELSE MergeAll(MergeImage(map, infos[k]), infos, k + 1)

\* "for _, v := range globalSafeListMap": the values, in any order.
MapValues(map) ==
    LET keys == DOMAIN map
        n    == Cardinality(keys)
    IN  { [k \in 1..n |-> map[order[k]]] : order \in
            { o \in [1..n -> keys] : \A i \in 1..n : \A j \in 1..n : i # j => o[i] # o[j] } }

\* Variant: a deployment whose history cannot be read aborts the scan.
OnRevisionErrorAbort == "fatal"

\* getSafeImagesForWorkload returned nil: the deployment loop goes on.
OnRevisionError == "deployments"

scanEnv == scan.envs[scan.eIdx]
scanNamespace == scanEnv.Namespaces[scan.nIdx]

ScanFails == scan.failures < MaxFailures

AtNamespaceLoop ==
    \/ scan.pc = "namespaces"
    \/ scan.pc = "statefulsets" /\ scan.wIdx = Len(scan.items)

AtEnvLoop ==
    \/ scan.pc = "envs"
    \/ AtNamespaceLoop /\ scan.nIdx = Len(scanEnv.Namespaces)

\* What the history records of one examined imgInfo.
Discovery(imgInfo, kind, name) ==
    [Image |-> imgInfo.Image, Env |-> imgInfo.Env, Namespace |-> imgInfo.Namespace,
     e |-> scan.eIdx, n |-> scan.nIdx, kind |-> kind, name |-> name]

InitScan ==
    /\ CleanupIdle
    /\ \E envs \in EnvironmentChoices : \E f \in ClusterChoices :
          scan = [pc |-> "envs", envs |-> envs, cluster |-> f,
                  eIdx |-> 0, nIdx |-> 0, wIdx |-> 0, items |-> <<>>,
                  globalSafeListMap |-> <<>>, globalSafeList |-> <<>>,
                  manifestFile |-> <<>>,
                  discoveries |-> <<>>, rsFailed |-> {}, listFailed |-> {},
                  failures |-> 0, run |-> 1, previous |-> <<>>]

\* Next environment: build the client for it.
Scan_Env ==
    /\ AtEnvLoop
    /\ scan.eIdx < Len(scan.envs)
    /\ \/ scan' = [scan EXCEPT !.pc = "namespaces", !.eIdx = @ + 1, !.nIdx = 0,
                                !.wIdx = 0, !.items = <<>>]
       \/ /\ ScanFails
          /\ scan' = [scan EXCEPT !.pc = "fatal", !.failures = @ + 1]
    /\ UNCHANGED cleanupVars

\* Next namespace: list its deployments.
Scan_Namespace ==
    /\ AtNamespaceLoop
    /\ scan.nIdx < Len(scanEnv.Namespaces)
    /\ \/ scan' = [scan EXCEPT !.pc = "deployments", !.nIdx = @ + 1, !.wIdx = 0,
                        !.items = WorkloadsIn(scan.cluster,
                                              SlotOf(scan.eIdx, scan.nIdx + 1), 1, 1)]
       \/ /\ ScanFails
          /\ scan' = [scan EXCEPT !.pc = "namespaces", !.nIdx = @ + 1, !.wIdx = 0,
                          !.items = <<>>, !.failures = @ + 1,
                          !.listFailed = @ \cup {<<scan.eIdx, scan.nIdx + 1, 1>>}]
    /\ UNCHANGED cleanupVars

\* One deployment: filter, extract, merge.
Scan_Deployment ==
    /\ scan.pc = "deployments"
    /\ scan.wIdx < Len(scan.items)
    /\ LET d == scan.items[scan.wIdx + 1] IN
       IF ~ShouldProcessWorkload(d.Name, scanEnv.PodWhitelist, scanEnv.PodBlacklist)
       THEN scan' = [scan EXCEPT !.wIdx = @ + 1]
       ELSE \/ \E safeImages \in GetSafeImagesForWorkload(scanEnv.Name, scanNamespace, d,
                                                          d.rsList, scanEnv.Keep) :
                 scan' = [scan EXCEPT
                    !.wIdx = @ + 1,
                    !.globalSafeListMap = MergeAll(@, safeImages, 1),
                    !.discoveries = @ \o [k \in 1..Len(safeImages) |->
                                             Discovery(safeImages[k], 1, d.Name)]]
            \/ /\ ScanFails
               /\ scan' = [scan EXCEPT !.pc = OnRevisionError, !.wIdx = @ + 1,
                               !.failures = @ + 1,
                               !.rsFailed = @ \cup {<<scan.eIdx, scan.nIdx, d.Name>>}]
    /\ UNCHANGED cleanupVars

\* After the deployments: list the stateful sets of the namespace.
Scan_StatefulSets ==
    /\ scan.pc = "deployments"
    /\ scan.wIdx = Len(scan.items)
    /\ \/ scan' = [scan EXCEPT !.pc = "statefulsets", !.wIdx = 0,
                        !.items = WorkloadsIn(scan.cluster,
                                              SlotOf(scan.eIdx, scan.nIdx), 2, 1)]
       \/ /\ ScanFails
          /\ scan' = [scan EXCEPT !.pc = "namespaces", !.wIdx = 0, !.items = <<>>,
                          !.failures = @ + 1,
                          !.listFailed = @ \cup {<<scan.eIdx, scan.nIdx, 2>>}]
    /\ UNCHANGED cleanupVars

\* One stateful set: filter, merge its containers' images.
Scan_StatefulSet ==
    /\ scan.pc = "statefulsets"
    /\ scan.wIdx < Len(scan.items)
    /\ LET w == scan.items[scan.wIdx + 1] IN
       IF ~ShouldProcessWorkload(w.Name, scanEnv.PodWhitelist, scanEnv.PodBlacklist)
       THEN scan' = [scan EXCEPT !.wIdx = @ + 1]
       ELSE LET infos == [k \in 1..Len(w.Containers) |->
                            [Image |-> w.Containers[k], Env |-> scanEnv.Name,
                             Namespace |-> scanNamespace]]
            IN  scan' = [scan EXCEPT
                   !.wIdx = @ + 1,
                   !.globalSafeListMap = MergeAll(@, infos, 1),
                   !.discoveries = @ \o [k \in 1..Len(infos) |->
                                            Discovery(infos[k], 2, w.Name)]]
    /\ UNCHANGED cleanupVars

\* After the last environment: the map's values become the list.
Scan_Return ==
    /\ AtEnvLoop
    /\ scan.eIdx = Len(scan.envs)
    /\ \E list \in MapValues(scan.globalSafeListMap) :
          scan' = [scan EXCEPT !.pc = "built", !.globalSafeList = list]
    /\ UNCHANGED cleanupVars

\* main, stage scan: the list is written to the manifest file.
Main_WriteManifest ==
    /\ scan.pc = "built"
    /\ \/ scan' = [scan EXCEPT !.pc = "written",
                        !.manifestFile = WriteManifestToCSV(scan.globalSafeList)]
       \/ /\ ScanFails
          /\ scan' = [scan EXCEPT !.pc = "fatal", !.failures = @ + 1]
    /\ UNCHANGED cleanupVars

\* main, stage clean: the manifest file is read back.
Main_ReadManifest ==
    /\ scan.pc = "written"
    /\ IF CsvReadAllFails(scan.manifestFile)
       THEN /\ scan' = [scan EXCEPT !.pc = "fatal"]
            /\ UNCHANGED <<safeImageSet, contextMap>>
       ELSE /\ scan' = [scan EXCEPT !.pc = "read"]
            /\ safeImageSet' = ReadManifestFromCSV(CsvReadAll(scan.manifestFile)).safeImageSet
            /\ contextMap' = ReadManifestFromCSV(CsvReadAll(scan.manifestFile)).contextMap
    /\ UNCHANGED <<policy, dryRun, keepLastN, maxSnapshots, projectWhitelist, registry, pc,
                   projects, pIdx, repos, rIdx, artifacts, aIdx, keptSnapshots, toDelete,
                   artifactsDeleted, auditRecords, listCalls, deleteCalls, decisions,
                   failures, failedScopes, sortMemo, prevAudit>>

NextScan ==
    \/ Scan_Env
    \/ Scan_Namespace
    \/ Scan_Deployment
    \/ Scan_StatefulSets
    \/ Scan_StatefulSet
    \/ Scan_Return
    \/ Main_WriteManifest
    \/ Main_ReadManifest

SpecScan == InitScan /\ [][NextScan]_vars

\* The scan stage is run a second time on the same clusters, after a first
\* run in which no call failed.
Scan_Again ==
    /\ scan.pc = "built"
    /\ scan.run = 1
    /\ scan.failures = 0
    /\ scan' = [scan EXCEPT !.pc = "envs", !.run = 2, !.previous = scan.globalSafeList,
                            !.eIdx = 0, !.nIdx = 0, !.wIdx = 0, !.items = <<>>,
                            !.globalSafeListMap = <<>>, !.globalSafeList = <<>>,
                            !.discoveries = <<>>]
    /\ UNCHANGED cleanupVars

NextScanTwice == NextScan \/ Scan_Again

SpecScanTwice == InitScan /\ [][NextScanTwice]_vars

\* The pattern matcher and the workload filter, called on their own.

SeqsUpTo(S, n) == UNION { [1..k -> S] : k \in 0..n }

\* Patterns over literals and both wildcards; names over the literals.
Patterns == SeqsUpTo({"a", "b", "*", "?"}, MaxPattern)
WorkloadNames == SeqsUpTo({"a", "b"}, MaxName)

\* Patterns of a pod whitelist or blacklist.
FilterPatterns == { <<"a", "*">>, <<"?", "b">>, <<"*", "b", "*">>, <<"a">> }
PatternLists == SeqsUpTo(FilterPatterns, MaxPatterns)

InitMatch ==
    /\ CleanupIdle
    /\ \E pattern \in Patterns : \E name \in WorkloadNames :
          scan = [pc |-> "call", pattern |-> pattern, name |-> name]

Match_Call ==
    /\ scan.pc = "call"
    /\ "pattern" \in DOMAIN scan
    /\ scan' = [pc |-> "returned", pattern |-> scan.pattern, name |-> scan.name,
                result |-> MatchWildcard(scan.pattern, scan.name)]
    /\ UNCHANGED cleanupVars

SpecMatch == InitMatch /\ [][Match_Call]_vars

InitFilter ==
    /\ CleanupIdle
    /\ \E whitelist \in PatternLists : \E blacklist \in PatternLists :
       \E name \in WorkloadNames :
          scan = [pc |-> "call", whitelist |-> whitelist, blacklist |-> blacklist,
                  name |-> name]

Filter_Call ==
    /\ scan.pc = "call"
    /\ "whitelist" \in DOMAIN scan
    /\ scan' = [pc |-> "returned", whitelist |-> scan.whitelist,
                blacklist |-> scan.blacklist, name |-> scan.name,
                result |-> ShouldProcessWorkload(scan.name, scan.whitelist, scan.blacklist)]
    /\ UNCHANGED cleanupVars

SpecFilter == InitFilter /\ [][Filter_Call]_vars

\* The clean stage started on a manifest file that is already there.
InitManifest ==
    /\ CleanupIdle
    /\ \E file \in RawFiles : scan = [pc |-> "written", manifestFile |-> file]

SpecManifest == InitManifest /\ [][Main_ReadManifest]_vars

----------------------------------------------------------------------------
\* The operator runs the tool again: after a dry run in which every call
\* succeeded, the same configuration with dry-run set to false, against the
\* registry the dry run left.

Rerun ==
    /\ policy \in {"harbor", "k8s"}
    /\ pc = "done"
    /\ dryRun
    /\ prevAudit = <<>>
    /\ failures = 0
    /\ prevAudit' = auditRecords
    /\ dryRun' = FALSE
    /\ pc' = "start"
    /\ projects' = <<>>
    /\ pIdx' = 0
    /\ repos' = <<>>
    /\ rIdx' = 0
    /\ artifacts' = <<>>
    /\ aIdx' = 0
    /\ keptSnapshots' = 0
    /\ artifactsDeleted' = 0
    /\ auditRecords' = <<>>
    /\ listCalls' = {}
    /\ deleteCalls' = <<>>
    /\ decisions' = <<>>
    /\ failedScopes' = {}
    /\ UNCHANGED <<policy, keepLastN, maxSnapshots, projectWhitelist, safeImageSet,
                   contextMap, registry, toDelete, failures, sortMemo, scan>>

----------------------------------------------------------------------------
\* Specifications.

NextHarbor ==
    \/ Harbor_ListProjects
    \/ Harbor_Project
    \/ Harbor_Repo
    \/ Harbor_Artifact
    \/ Harbor_Return

NextK8s ==
    \/ K8s_ListProjects
    \/ K8s_Project
    \/ K8s_Repo
    \/ K8s_Artifact
    \/ K8s_Return

NextLegacy ==
    \/ Legacy_ListProjects
    \/ Legacy_Project
    \/ Legacy_Repo
    \/ Legacy_Delete
    \/ Legacy_Return

Next == NextHarbor \/ NextK8s \/ NextLegacy

\* A run of any of the three evaluators.
Spec == Init /\ [][Next]_vars

\* A run of RunHarborStrategy.
SpecHarbor == InitHarbor /\ [][NextHarbor]_vars

\* A run of RunKubernetesStrategy.
SpecK8s == InitK8s /\ [][NextK8s]_vars

\* A run of the v5 main.
SpecLegacy == InitLegacy /\ [][NextLegacy]_vars

\* A dry run of a current policy, followed by a live run of the same.
InitTwice == (InitHarbor \/ InitK8s) /\ dryRun

NextTwice == NextHarbor \/ NextK8s \/ Rerun

SpecTwice == InitTwice /\ [][NextTwice]_vars

\* A run of a current policy with a project whitelist configured or not.
InitWhitelist ==
    \/ InitRun("harbor", WhitelistStrings) /\ TimeBasedParams
    \/ InitRun("k8s", WhitelistStrings) /\ ManifestParams

SpecWhitelist == InitWhitelist /\ [][NextHarbor \/ NextK8s]_vars

\* A run of either time-based evaluator.
SpecTimeBased == (InitHarbor \/ InitLegacy) /\ [][NextHarbor \/ NextLegacy]_vars

----------------------------------------------------------------------------
\* Properties.

\* The statuses that classify an artifact for deletion.
DeleteClass == {"DELETED", "TO BE DELETED", "DELETE_FAILED", "DELETE"}

AllRepoNames == {RepoNames[r] : r \in 1..Len(RepoNames)}

\* The decisions taken so far for one repository, as indices into decisions.
DecisionsFor(repo) == {k \in 1..Len(decisions) : decisions[k].repo = repo}

\* The number of artifacts of the same repository classified KEPT before
\* decision k.
KeptBefore(k) ==
    Cardinality({j \in 1..(k - 1) :
                    decisions[j].repo = decisions[k].repo /\ decisions[j].keep})

\* The same, counting only the artifacts whose first tag snap() accepts.
SnapshotsKeptBefore(k, snap(_)) ==
    Cardinality({j \in 1..(k - 1) :
                    /\ decisions[j].repo = decisions[k].repo
                    /\ decisions[j].keep
                    /\ snap(decisions[j].tags[1])})

\* C1 (as stated): in the manifest-based cleanup no DeleteArtifact call is
\* issued for an artifact that carries any tag T with host/repo:T in the
\* safe-image set, also when T is not the artifact's first tag.
C1_NoSafeTagDeleted ==
    policy = "k8s" =>
        \A c \in 1..Len(deleteCalls) : \A k \in 1..Len(decisions) :
            (decisions[k].repo = deleteCalls[c].repo
                /\ decisions[k].digest = deleteCalls[c].digest)
            => \A t \in 1..Len(decisions[k].tags) :
                  K8sFullImageName(decisions[k].repo, decisions[k].tags[t])
                      \notin safeImageSet

\* The in-use set as the specification words it: the manifest images of
\* this registry host, without the host prefix, cut at their last ':'.
C2_InUseSet ==
    { r \in AllRepoNames :
        \E img \in safeImageSet : \E k \in 1..Len(img) :
            /\ img[k] = ":"
            /\ \A m \in (k + 1)..Len(img) : img[m] # ":"
            /\ SubSeq(img, 1, k - 1) = HarborDomain \o Slash \o r }

\* C2: in the manifest-based cleanup a repository whose name is not in the
\* in-use set is never listed, none of its artifacts is deleted and no audit
\* record is written for it, in dry-run and in live mode.
C2_UnusedRepoUntouched ==
    policy = "k8s" =>
        \A r \in AllRepoNames \ C2_InUseSet :
            /\ r \notin listCalls
            /\ \A c \in 1..Len(deleteCalls) : deleteCalls[c].repo # r
            /\ DecisionsFor(r) = {}
            /\ \A k \in 2..Len(auditRecords) :
                  ~HasPrefix(auditRecords[k][1], HarborDomain \o Slash \o r \o Colon)

\* A live run that finished, cleaned an in-use repository and left a
\* repository that holds artifacts alone because the manifest does not name it.
C2_Witness ==
    /\ policy = "k8s"
    /\ ~dryRun
    /\ pc = "done"
    /\ failures = 0
    /\ deleteCalls # <<>>
    /\ \E r \in AllRepoNames \ C2_InUseSet : registry[r] # <<>>

\* C3 (as stated): when the configuration does not set dry-run, a run of
\* either cleanup policy issues no DeleteArtifact call.
C3_DefaultIssuesNoDelete ==
    dryRun = DryRunOf(policy, "unset") => deleteCalls = <<>>

\* C4: with dry-run true, RunHarborStrategy and RunKubernetesStrategy issue
\* no DeleteArtifact call, and no step of the run changes the registry.
C4_DryRunLeavesRegistry ==
    /\ [](dryRun /\ policy \in {"harbor", "k8s"} => deleteCalls = <<>>)
    /\ [][dryRun /\ policy \in {"harbor", "k8s"} => registry' = registry]_vars

\* A finished dry run that classified an artifact for deletion and still
\* holds it in the registry.
C4_Witness ==
    /\ dryRun
    /\ policy \in {"harbor", "k8s"}
    /\ pc = "done"
    /\ artifactsDeleted > 0
    /\ \E k \in 1..Len(decisions) :
          /\ decisions[k].status = "TO BE DELETED"
          /\ \E a \in 1..Len(registry[decisions[k].repo]) :
                registry[decisions[k].repo][a].Digest = decisions[k].digest

\* C5 (as stated): time-based policy, a repository with at most keepLastN
\* artifacts has no artifact classified DELETE and no delete call, whatever
\* the tags and maxSnapshots.
C5_SmallRepoKeepsAll ==
    \A k \in 1..Len(decisions) :
        decisions[k].n <= keepLastN =>
            /\ decisions[k].keep
            /\ decisions[k].status \notin DeleteClass
            /\ \A c \in 1..Len(deleteCalls) :
                  ~(deleteCalls[c].repo = decisions[k].repo
                      /\ deleteCalls[c].digest = decisions[k].digest)

\* C6: RunHarborStrategy walks a repository in descending push-time order,
\* and in a repository with more than keepLastN artifacts every tagged
\* artifact at 0-based position >= keepLastN is classified DELETE, never
\* KEPT, also for keepLastN = 0.
C6_BeyondWindowDeleted ==
    /\ \A j \in 1..Len(decisions) : \A k \in 1..Len(decisions) :
          (decisions[j].repo = decisions[k].repo /\ decisions[j].i < decisions[k].i)
          => decisions[j].time >= decisions[k].time
    /\ \A k \in 1..Len(decisions) :
          (decisions[k].n > keepLastN
              /\ (decisions[k].i >= keepLastN \/ decisions[k].tpos >= keepLastN))
          => /\ ~decisions[k].keep
             /\ decisions[k].status \in DeleteClass
             /\ auditRecords[k + 1][2] = decisions[k].status

\* One repository with an artifact kept inside the window and an older
\* artifact deleted at position keepLastN or beyond.
C6_Witness ==
    \E j \in 1..Len(decisions) : \E k \in 1..Len(decisions) :
        /\ decisions[j].repo = decisions[k].repo
        /\ decisions[j].keep
        /\ decisions[j].i < keepLastN
        /\ decisions[k].i >= keepLastN
        /\ decisions[k].time < decisions[j].time
        /\ decisions[k].status = "DELETED"

\* C7: RunHarborStrategy keeps at most maxSnapshots snapshot-tagged
\* artifacts per repository; once maxSnapshots snapshots are kept every later
\* snapshot-tagged artifact is classified DELETE, also below keepLastN.
C7_SnapshotCap ==
    /\ \A r \in AllRepoNames :
          Cardinality({k \in DecisionsFor(r) :
                          decisions[k].keep /\ IsSnapshot(decisions[k].tags[1])})
              <= maxSnapshots
    /\ \A k \in 1..Len(decisions) :
          (IsSnapshot(decisions[k].tags[1])
              /\ SnapshotsKeptBefore(k, IsSnapshot) >= maxSnapshots)
          => /\ ~decisions[k].keep
             /\ decisions[k].status \in DeleteClass

\* A snapshot deleted inside the window because an earlier snapshot of the
\* repository took the last slot of the cap.
C7_Witness ==
    \E j \in 1..Len(decisions) : \E k \in 1..Len(decisions) :
        /\ j < k
        /\ decisions[j].repo = decisions[k].repo
        /\ IsSnapshot(decisions[j].tags[1]) /\ decisions[j].keep
        /\ IsSnapshot(decisions[k].tags[1]) /\ ~decisions[k].keep
        /\ decisions[k].i < keepLastN
        /\ maxSnapshots > 0

C9_TaggedPositionKept ==
    policy = "harbor" =>
        \A k \in 1..Len(decisions) :
            (~IsSnapshot(decisions[k].tags[1]) /\ decisions[k].tpos < keepLastN)
            => decisions[k].keep

\* C10: the manifest policy writes one audit record per tagged artifact it
\* evaluates, for the reference host/repo:tag of the artifact's first tag: KEPT
\* with the comma-joined environments and namespaces of the image's contexts
\* when the reference is in the safe-image set, else a DELETE-class status
\* with '-' in both context fields; a run without failures evaluates every
\* tagged artifact of every in-use repository.
C10_ManifestAuditRecord ==
    policy = "k8s" =>
        /\ pc # "start" => Len(auditRecords) = Len(decisions) + 1
        /\ \A k \in 1..Len(decisions) :
              LET d   == decisions[k]
                  rec == auditRecords[k + 1]
                  ref == HarborDomain \o Slash \o d.repo \o Colon \o d.tags[1]
                  ctx == IF ref \in DOMAIN contextMap THEN contextMap[ref] ELSE <<>>
              IN  /\ rec[1] = ref
                  /\ rec[2] = d.status
                  /\ d.repo \in C2_InUseSet
                  /\ IF ref \in safeImageSet
                     THEN /\ rec[2] = "KEPT"
                          /\ rec[3] = Join([c \in 1..Len(ctx) |-> ctx[c].Env], Comma)
                          /\ rec[4] = Join([c \in 1..Len(ctx) |-> ctx[c].Namespace], Comma)
                     ELSE /\ rec[2] \in {"DELETED", "TO BE DELETED", "DELETE_FAILED"}
                          /\ rec[3] = <<"-">>
                          /\ rec[4] = <<"-">>
        /\ (pc = "done" /\ failures = 0) =>
              \A r \in C2_InUseSet : \A a \in 1..Len(registry[r]) :
                  Len(registry[r][a].Tags) > 0 =>
                      \E k \in DecisionsFor(r) : decisions[k].digest = registry[r][a].Digest

\* An image used in two contexts kept with both environments and both
\* namespaces joined, next to an artifact of the same repository that the
\* manifest does not name.
C10_Witness ==
    /\ policy = "k8s"
    /\ \E j \in 2..Len(auditRecords) : \E k \in 2..Len(auditRecords) :
          /\ decisions[j - 1].repo = decisions[k - 1].repo
          /\ auditRecords[j][2] = "KEPT"
          /\ auditRecords[j][3] = <<"p", ",", "q">>
          /\ auditRecords[j][4] = <<"n", ",", "m">>
          /\ auditRecords[k][2] = "DELETED"
          /\ auditRecords[k][3] = <<"-">>

\* C11: a live run on the registry and configuration of a dry run, with no
\* listing failure in either, writes the same audit rows as the dry run,
\* KEPT exactly where the dry run has KEPT; rows differ in the status column
\* only, TO BE DELETED against DELETED or DELETE_FAILED.
C11_DryRunSameAsLive ==
    (prevAudit # <<>> /\ pc = "done" /\ failedScopes = {}) =>
        /\ Len(auditRecords) = Len(prevAudit)
        /\ \A k \in 1..Len(auditRecords) :
              LET dry  == prevAudit[k]
                  live == auditRecords[k]
              IN  /\ Len(dry) = Len(live)
                  /\ \A f \in 1..Len(dry) : f # 2 => dry[f] = live[f]
                  /\ dry[2] = "KEPT" <=> live[2] = "KEPT"
                  /\ dry[2] # live[2] =>
                        /\ dry[2] = "TO BE DELETED"
                        /\ live[2] \in {"DELETED", "DELETE_FAILED"}

\* A finished live run after a dry run, with a kept artifact and one whose
\* label changed from TO BE DELETED.
C11_Witness ==
    /\ prevAudit # <<>>
    /\ pc = "done"
    /\ failedScopes = {}
    /\ \E j \in 2..Len(auditRecords) : \E k \in 2..Len(auditRecords) :
          /\ k <= Len(prevAudit)
          /\ auditRecords[j][2] = "KEPT"
          /\ prevAudit[k][2] = "TO BE DELETED"
          /\ auditRecords[k][2] \in {"DELETED", "DELETE_FAILED"}

\* The project a repository belongs to.
ProjectOf(repo) ==
    CHOOSE p \in {ProjectNames[k] : k \in 1..Len(ProjectNames)} :
        \E k \in 1..Len(ReposOf(p)) : ReposOf(p)[k] = repo

\* The repositories a run of the current policy is to evaluate.
ReposInScope ==
    { r \in AllRepoNames :
        /\ InWhitelist(projectWhitelist, ProjectOf(r))
        /\ policy = "k8s" => r \in C2_InUseSet }

\* Every tagged artifact the registry holds in repository r has been classified.
AllClassified(r) ==
    \A a \in 1..Len(registry[r]) :
        Len(registry[r][a].Tags) > 0 =>
            \E k \in DecisionsFor(r) : decisions[k].digest = registry[r][a].Digest

\* C12: in a live run of either current policy a failed DeleteArtifact leaves
\* the artifact in the registry with an audit record DELETE_FAILED, the
\* deleted counter counts the DELETED / TO BE DELETED records only, and the
\* run goes on: when it ends without a listing failure every tagged artifact
\* of every repository in scope has been classified.
C12_DeleteFailureContinues ==
    policy \in {"harbor", "k8s"} =>
        /\ \A c \in 1..Len(deleteCalls) :
              ~deleteCalls[c].ok =>
                  \E k \in DecisionsFor(deleteCalls[c].repo) :
                      /\ decisions[k].digest = deleteCalls[c].digest
                      /\ decisions[k].status = "DELETE_FAILED"
                      /\ auditRecords[k + 1][2] = "DELETE_FAILED"
                      /\ \E a \in 1..Len(registry[decisions[k].repo]) :
                            registry[decisions[k].repo][a].Digest = decisions[k].digest
        /\ artifactsDeleted =
              Cardinality({k \in 1..Len(decisions) :
                              decisions[k].status \in {"DELETED", "TO BE DELETED"}})
        /\ (pc = "done" /\ failedScopes = {}) => \A r \in ReposInScope : AllClassified(r)

\* A finished live run in which a delete failed and a later artifact of the
\* same repository was then deleted.
C12_Witness ==
    /\ policy \in {"harbor", "k8s"}
    /\ pc = "done"
    /\ \E c \in 1..Len(deleteCalls) : \E e \in 1..Len(deleteCalls) :
          /\ c < e
          /\ deleteCalls[c].repo = deleteCalls[e].repo
          /\ ~deleteCalls[c].ok
          /\ deleteCalls[e].ok
          /\ artifactsDeleted = 1

\* No delete call, decision or audit record concerns repository r.
NoOutputFor(r) ==
    /\ DecisionsFor(r) = {}
    /\ \A c \in 1..Len(deleteCalls) : deleteCalls[c].repo # r
    /\ \A k \in 2..Len(auditRecords) : ~Contains(auditRecords[k][1], Slash \o r \o Colon)

\* C13: in both current policies a failed ListRepositories skips that
\* project only and a failed ListArtifacts that repository only: the failed
\* scope gets no audit record and no delete call, and at the end of the run
\* every other repository in scope has been listed and all its tagged
\* artifacts classified.
C13_ListFailureSkipsScopeOnly ==
    policy \in {"harbor", "k8s"} =>
        /\ \A r \in AllRepoNames :
              /\ r \in failedScopes => NoOutputFor(r)
              /\ ProjectOf(r) \in failedScopes => (r \notin listCalls /\ NoOutputFor(r))
        /\ pc = "done" =>
              \A r \in ReposInScope :
                  (r \notin failedScopes /\ ProjectOf(r) \notin failedScopes)
                  => (r \in listCalls /\ AllClassified(r))

\* ListArtifacts failed for the first repository, which holds a tagged
\* artifact, and the run went on to classify artifacts of later ones.
C13_Witness ==
    /\ policy \in {"harbor", "k8s"}
    /\ pc = "done"
    /\ RepoDA \in failedScopes
    /\ TaggedOnly(registry[RepoDA]) # <<>>
    /\ decisions # <<>>

AllProjectNames == {ProjectNames[k] : k \in 1..Len(ProjectNames)}

\* Project name p is one of the comma-separated items of the configured
\* string w, surrounding blanks aside.
C14_Listed(w, p) ==
    \E a \in 0..Len(w) : \E b \in 1..(Len(w) + 1) :
        /\ a < b
        /\ a = 0 \/ w[a] = ","
        /\ b = Len(w) + 1 \/ w[b] = ","
        /\ \A m \in (a + 1)..(b - 1) : w[m] # ","
        /\ TrimSpace(SubSeq(w, a + 1, b - 1)) = p

\* C14: in both current policies, with a non-empty whitelist string a
\* project that is not one of its items is never listed, none of its
\* repositories is listed or deleted from and no audit record is written for
\* it; with the empty string every project is listed by the end of the run.
C14_WhitelistHonoured ==
    policy \in {"harbor", "k8s"} =>
        \A w \in WhitelistStrings :
            projectWhitelist = ParseWhitelist(w) =>
                /\ w # <<>> =>
                      \A p \in AllProjectNames :
                          ~C14_Listed(w, p) =>
                              /\ p \notin listCalls
                              /\ \A r \in AllRepoNames :
                                    ProjectOf(r) = p => (r \notin listCalls /\ NoOutputFor(r))
                /\ (w = <<>> /\ pc = "done") => AllProjectNames \subseteq listCalls

\* A finished run under the whitelist "d": project o, which holds a tagged
\* artifact, was passed over while artifacts of project d were classified.
C14_Witness ==
    /\ policy \in {"harbor", "k8s"}
    /\ projectWhitelist = ParseWhitelist(<<"d">>)
    /\ pc = "done"
    /\ TaggedOnly(registry[RepoOC]) # <<>>
    /\ policy = "k8s" => RepoOC \in C2_InUseSet
    /\ decisions # <<>>
    /\ <<"o">> \notin listCalls

\* The images of a sequence of safe-image records.
ImagesOf(records) == {records[k].Image : k \in 1..Len(records)}

\* C15: getSafeImagesForWorkload returns at most keepN records, none when
\* keepN <= 0, with pairwise distinct images taken from the deployment's
\* revisions, each carrying the environment and namespace of the call.
C15_AtMostKeepNDistinct ==
    (scan.pc = "returned") =>
        LET r == scan.safeImages IN
        /\ scan.keepN <= 0 => r = <<>>
        /\ Len(r) <= scan.keepN \/ r = <<>>
        /\ \A j \in 1..Len(r) : \A k \in 1..Len(r) : j # k => r[j].Image # r[k].Image
        /\ \A k \in 1..Len(r) :
              /\ r[k].Env = scan.envName
              /\ r[k].Namespace = scan.namespace
              /\ \/ \E c \in 1..Len(scan.deployment.Containers) :
                       scan.deployment.Containers[c] = r[k].Image
                 \/ \E h \in 1..Len(scan.deployment.rsList) :
                       scan.deployment.rsList[h].Containers[1] = r[k].Image

\* A history with more distinct images than keepN, cut to keepN records.
C15_Witness ==
    /\ scan.pc = "returned"
    /\ scan.listed
    /\ scan.keepN >= 1
    /\ Len(scan.safeImages) = scan.keepN
    /\ Cardinality({scan.deployment.Containers[c] : c \in 1..Len(scan.deployment.Containers)}
                   \cup {scan.deployment.rsList[h].Containers[1] :
                            h \in 1..Len(scan.deployment.rsList)}) > scan.keepN

\* C16 (as stated): for a deployment without replica sets and keepN >= 1
\* the result contains the image of every container of the current spec.
C16_CurrentImagesIncluded ==
    (scan.pc = "returned" /\ scan.listed /\ scan.keepN >= 1
        /\ scan.deployment.rsList = <<>>)
    => \A c \in 1..Len(scan.deployment.Containers) :
          scan.deployment.Containers[c] \in ImagesOf(scan.safeImages)

\* The workloads of the scanned cluster, with their place in the scan.
ScannedWorkloads ==
    { [w |-> WorkloadOf(scan.cluster, n), kind |-> scan.cluster[n].kind,
       e |-> ScanSlots[scan.cluster[n].slot][1], n |-> ScanSlots[scan.cluster[n].slot][2]]
      : n \in 1..Len(scan.cluster) }

\* The images the history records for one workload.
DiscoveredFrom(x) ==
    { scan.discoveries[k].Image : k \in
        { i \in 1..Len(scan.discoveries) :
            /\ scan.discoveries[i].e = x.e
            /\ scan.discoveries[i].n = x.n
            /\ scan.discoveries[i].name = x.w.Name } }

\* The workload passes the environment's filters and its listing succeeded.
ReachedByScan(x) ==
    /\ ShouldProcessWorkload(x.w.Name, scan.envs[x.e].PodWhitelist, scan.envs[x.e].PodBlacklist)
    /\ <<x.e, x.n, 1>> \notin scan.listFailed
    /\ x.kind = 2 => <<x.e, x.n, 2>> \notin scan.listFailed

ScanReturned == scan.pc \in {"built", "written", "read"}

\* C17: a deployment whose replica sets cannot be listed contributes no record,
\* the scan does not end in an error because of it, and every other workload
\* that the scan reaches still contributes its records.
C17_RevisionFailureSkipsWorkloadOnly ==
    /\ \A x \in ScannedWorkloads :
          <<x.e, x.n, x.w.Name>> \in scan.rsFailed => DiscoveredFrom(x) = {}
    /\ scan.pc = "fatal" =>
          scan.failures > Cardinality(scan.rsFailed) + Cardinality(scan.listFailed)
    /\ ScanReturned =>
          \A x \in ScannedWorkloads :
             ReachedByScan(x) /\ <<x.e, x.n, x.w.Name>> \notin scan.rsFailed =>
                IF x.kind = 2
                THEN DiscoveredFrom(x) = { x.w.Containers[k] : k \in 1..Len(x.w.Containers) }
                ELSE scan.envs[x.e].Keep >= 1 => DiscoveredFrom(x) # {}

\* A deployment failed and a workload scanned after it has contributed.
C17_Witness ==
    /\ ScanReturned
    /\ \E x \in ScannedWorkloads : \E y \in ScannedWorkloads :
          /\ <<x.e, x.n, x.w.Name>> \in scan.rsFailed
          /\ y.w.Name # x.w.Name
          /\ DiscoveredFrom(y) # {}

\* Position of a discovery in the scan: environment, namespace, workload kind.
ScanPosition(d) == d.e * 100 + d.n * 10 + d.kind

\* C18: the returned list holds exactly one record per discovered image, with
\* the environment and namespace of its first discovery in scan order.
C18_OneRecordPerImageFirstWins ==
    ScanReturned =>
       LET list == scan.globalSafeList
           disc == scan.discoveries
       IN  /\ \A i \in 1..Len(disc) : \A j \in 1..Len(disc) :
                 i < j => ScanPosition(disc[i]) <= ScanPosition(disc[j])
           /\ \A k \in 1..Len(disc) :
                 /\ disc[k].Env = scan.envs[disc[k].e].Name
                 /\ disc[k].Namespace = scan.envs[disc[k].e].Namespaces[disc[k].n]
           /\ ImagesOf(list) = { disc[k].Image : k \in 1..Len(disc) }
           /\ \A i \in 1..Len(list) : \A j \in 1..Len(list) :
                 i # j => list[i].Image # list[j].Image
           /\ \A i \in 1..Len(list) :
                 LET first == CHOOSE k \in 1..Len(disc) :
                                 /\ disc[k].Image = list[i].Image
                                 /\ \A m \in 1..(k - 1) : disc[m].Image # list[i].Image
                 IN  /\ list[i].Env = disc[first].Env
                     /\ list[i].Namespace = disc[first].Namespace

\* An image was discovered twice, in different places.
C18_Witness ==
    /\ ScanReturned
    /\ \E i \in 1..Len(scan.discoveries) : \E j \in 1..Len(scan.discoveries) :
          /\ i < j
          /\ scan.discoveries[i].Image = scan.discoveries[j].Image
          /\ <<scan.discoveries[i].Env, scan.discoveries[i].Namespace>>
                # <<scan.discoveries[j].Env, scan.discoveries[j].Namespace>>

\* C19, as stated: the set read back from the written manifest is the set of
\* images of the written records.
C19_RoundTripSameImages ==
    scan.pc = "read" => safeImageSet = ImagesOf(scan.globalSafeList)

\* C19, amended: the set read back is the set of the written images with
\* surrounding white space removed, without the empty one.
C19_RoundTripTrimmedImages ==
    scan.pc = "read" =>
       safeImageSet = { TrimSpace(image) : image \in ImagesOf(scan.globalSafeList) } \ {<<>>}

\* A manifest with a quoted field and two images was written and read back.
C19_Witness ==
    /\ scan.pc = "read"
    /\ Cardinality(safeImageSet) = 2
    /\ \E k \in 1..Len(scan.globalSafeList) :
          FieldNeedsQuotes(scan.globalSafeList[k].Env)

\* The rows of the manifest file the reader accepts for an image: after the
\* header, at least three fields, the trimmed first field being the image.
RowsOf(image) ==
    LET records == CsvReadAll(scan.manifestFile)
    IN  IF records = <<>> THEN <<>>
        ELSE SelectSeq(Tail(records), LAMBDA r : Len(r) >= 3 /\ TrimSpace(r[1]) = image)

\* C20: after a manifest is read, the keys of the context map are the safe
\* images, every one has a context, and an image that appears in k rows has
\* exactly k contexts, those of its rows in row order.
C20_ContextsPerRow ==
    scan.pc = "read" =>
       /\ DOMAIN contextMap = safeImageSet
       /\ \A image \in safeImageSet : Len(contextMap[image]) >= 1
       /\ \A image \in { TrimSpace(r[1]) : r \in RawRecords } \ {<<>>} :
             LET rows == RowsOf(image)
             IN  IF rows = <<>> THEN image \notin safeImageSet
                 ELSE /\ image \in safeImageSet
                      /\ contextMap[image] =
                            [k \in 1..Len(rows) |->
                               [Env |-> TrimSpace(rows[k][2]), Namespace |-> TrimSpace(rows[k][3])]]

\* An image was read from two rows with different contexts.
C20_Witness ==
    /\ scan.pc = "read"
    /\ \E image \in safeImageSet :
          /\ Len(contextMap[image]) = 2
          /\ contextMap[image][1] # contextMap[image][2]

\* Glob semantics, stated on the whole name: the pattern's positions cut the
\* name into consecutive pieces, a '*' taking any piece, a '?' any single
\* character, every other character the piece that is itself.
GlobMatches(pattern, name) ==
    \E cut \in [0..Len(pattern) -> 0..Len(name)] :
       /\ cut[0] = 0
       /\ cut[Len(pattern)] = Len(name)
       /\ \A k \in 1..Len(pattern) :
             /\ cut[k - 1] <= cut[k]
             /\ pattern[k] # "*" =>
                   /\ cut[k] = cut[k - 1] + 1
                   /\ pattern[k] = "?" \/ pattern[k] = name[cut[k]]

\* C21: MatchWildcard agrees with full-match glob semantics on every pattern
\* and name.
C21_MatchWildcardIsGlob ==
    (scan.pc = "returned" /\ "pattern" \in DOMAIN scan) =>
       (scan.result <=> GlobMatches(scan.pattern, scan.name))

\* A pattern with consecutive '*' between literals matched a name.
C21_Witness ==
    /\ scan.pc = "returned"
    /\ "pattern" \in DOMAIN scan
    /\ scan.result
    /\ Len(scan.pattern) = MaxPattern
    /\ scan.pattern[1] = "*"
    /\ scan.pattern[2] = "*"
    /\ scan.pattern[3] \notin {"*", "?"}
    /\ Len(scan.name) >= 2

\* C22: the blacklist rejects first; then a non-empty whitelist accepts
\* exactly its matches; with both lists empty every name is accepted.
C22_BlacklistBeforeWhitelist ==
    (scan.pc = "returned" /\ "whitelist" \in DOMAIN scan) =>
       LET black == \E k \in 1..Len(scan.blacklist) : GlobMatches(scan.blacklist[k], scan.name)
           white == \E k \in 1..Len(scan.whitelist) : GlobMatches(scan.whitelist[k], scan.name)
       IN  /\ black => ~scan.result
           /\ (~black /\ scan.whitelist # <<>>) => (scan.result <=> white)
           /\ (scan.whitelist = <<>> /\ scan.blacklist = <<>>) => scan.result

\* A name on both lists was rejected.
C22_Witness ==
    /\ scan.pc = "returned"
    /\ "whitelist" \in DOMAIN scan
    /\ ~scan.result
    /\ \E k \in 1..Len(scan.blacklist) : GlobMatches(scan.blacklist[k], scan.name)
    /\ \E k \in 1..Len(scan.whitelist) : GlobMatches(scan.whitelist[k], scan.name)

\* The tagged artifacts repository r held when it was listed: those it still
\* holds and those a successful delete call has removed.
TaggedWhenListed(r) ==
    Len(TaggedOnly(registry[r]))
    + Cardinality({c \in 1..Len(deleteCalls) : deleteCalls[c].repo = r /\ deleteCalls[c].ok})

\* The same, summed over a set of repositories.
RECURSIVE TaggedWhenListedIn(_)
TaggedWhenListedIn(S) ==
    IF S = {} THEN 0
    ELSE LET r == CHOOSE y \in S : TRUE
         IN  TaggedWhenListed(r) + TaggedWhenListedIn(S \ {r})

\* One step of a run, as the audit output sees it.
AuditStep ==
    policy \in {"harbor", "k8s"} =>
       /\ Len(auditRecords') >= Len(auditRecords)
       /\ SubSeq(auditRecords', 1, Len(auditRecords)) = auditRecords
       /\ IF pc = "start" THEN Len(auditRecords') = 1
          ELSE IF pc = "loop" /\ aIdx' = aIdx + 1 /\ Len(artifacts[aIdx + 1].Tags) > 0
          THEN Len(auditRecords') = Len(auditRecords) + 1
          ELSE auditRecords' = auditRecords

\* C23: in both current policies the audit output starts with the header
\* row, a step extends it by exactly one record when it evaluates a tagged
\* artifact and leaves it alone otherwise, no step changes or removes a
\* record, and at the end of a run the records number the tagged artifacts
\* of the repositories that were listed successfully.
C23_AuditAppendOnly ==
    /\ [](policy \in {"harbor", "k8s"} =>
            /\ auditRecords # <<>> =>
                  auditRecords[1] = IF policy = "harbor" THEN HarborAuditHeader
                                    ELSE K8sAuditHeader
            /\ pc = "done" =>
                  Len(auditRecords) - 1 =
                     TaggedWhenListedIn(AllRepoNames \cap (listCalls \ failedScopes)))
    /\ [][AuditStep]_vars

\* A finished run over a repository holding an untagged and a tagged
\* artifact: the header and one record.
C23_Witness ==
    /\ policy \in {"harbor", "k8s"}
    /\ pc = "done"
    /\ Len(auditRecords) = 2
    /\ \E r \in listCalls \cap AllRepoNames :
          /\ Len(registry[r]) = 2
          /\ Len(TaggedOnly(registry[r])) = 1

\* The delete calls issued for one artifact, as indices into deleteCalls.
CallsFor(repo, digest) ==
    { c \in 1..Len(deleteCalls) :
        deleteCalls[c].repo = repo /\ deleteCalls[c].digest = digest }

\* C24: in a live run of either current policy an artifact gets at most one
\* DeleteArtifact call, a failed one included; an artifact classified for
\* deletion gets exactly one, and a kept or untagged artifact none.
C24_DeleteAtMostOnce ==
    (policy \in {"harbor", "k8s"} /\ ~dryRun) =>
       /\ \A c \in 1..Len(deleteCalls) :
             /\ Cardinality(CallsFor(deleteCalls[c].repo, deleteCalls[c].digest)) = 1
             /\ \E k \in DecisionsFor(deleteCalls[c].repo) :
                   /\ decisions[k].digest = deleteCalls[c].digest
                   /\ decisions[k].tags # <<>>
                   /\ ~decisions[k].keep
                   /\ auditRecords[k + 1][2] =
                         IF deleteCalls[c].ok THEN "DELETED" ELSE "DELETE_FAILED"
       /\ \A k \in 1..Len(decisions) :
             Cardinality(CallsFor(decisions[k].repo, decisions[k].digest)) =
                IF auditRecords[k + 1][2] = "KEPT" THEN 0 ELSE 1
       /\ \A r \in AllRepoNames : \A a \in 1..Len(registry[r]) :
             registry[r][a].Tags = <<>> => CallsFor(r, registry[r][a].Digest) = {}

\* A finished live run: a delete failed, the next artifact was deleted, and
\* no call was repeated.
C24_Witness ==
    /\ policy \in {"harbor", "k8s"}
    /\ ~dryRun
    /\ pc = "done"
    /\ Len(deleteCalls) = 2
    /\ ~deleteCalls[1].ok
    /\ deleteCalls[2].ok

\* The revisions of the call's deployment in input order: the current spec's
\* containers, then the replica sets as listed.
InputRevisions == HistoricalRevisions(scan.deployment, scan.deployment.rsList)

\* When an image was most recently seen, and where in the input first then.
LastSeen(image) ==
    LET revs  == InputRevisions
        at    == { k \in 1..Len(revs) : revs[k].Image = image }
        t     == CHOOSE x \in { revs[k].Time : k \in at } :
                    \A k \in at : revs[k].Time <= x
    IN  [time |-> t,
         index |-> CHOOSE i \in at : revs[i].Time = t /\ \A k \in at : revs[k].Time = t => i <= k]

\* Image a comes before image b: seen later, or as late and earlier in the input.
EmittedBefore(a, b) ==
    \/ LastSeen(a).time > LastSeen(b).time
    \/ LastSeen(a).time = LastSeen(b).time /\ LastSeen(a).index < LastSeen(b).index

\* C25 (as stated): the records come in descending order of the time each
\* image was most recently seen, equal times in input order, and the images
\* selected are the first keepN of that order.
C25_StableDescendingOrder ==
    (scan.pc = "returned" /\ scan.listed) =>
       LET r == scan.safeImages IN
       /\ \A j \in 1..Len(r) : \A k \in 1..Len(r) :
             j < k => EmittedBefore(r[j].Image, r[k].Image)
       /\ \A image \in ImagesOf(InputRevisions) \ ImagesOf(r) :
             \A k \in 1..Len(r) : EmittedBefore(r[k].Image, image)

\* C26 (as stated): a second run of BuildK8sImageSafeList on the same
\* clusters returns the records of the first run, in the same order.
C26_SameListEveryRun ==
    (scan.pc = "built" /\ scan.run = 2 /\ scan.failures = 0) =>
       scan.globalSafeList = scan.previous

\* C27 (as stated): with keepN >= 1 and the replica sets listed, the image
\* the current spec of a deployment references is among the records,
\* whatever the revision history; stated here for a single-container spec.
C27_CurrentImageAlwaysKept ==
    (scan.pc = "returned" /\ scan.listed /\ scan.keepN >= 1
        /\ Len(scan.deployment.Containers) = 1)
    => scan.deployment.Containers[1] \in ImagesOf(scan.safeImages)

\* The audit records, header excluded, that carry the given status.
RecordsWithStatus(status) ==
    { k \in 2..Len(auditRecords) : auditRecords[k][2] = status }

\* One step of a run, as the deleted counter sees it.
CounterStep ==
    policy \in {"harbor", "k8s"} =>
       /\ artifactsDeleted' >= artifactsDeleted
       /\ artifactsDeleted' # artifactsDeleted =>
             /\ artifactsDeleted' = artifactsDeleted + 1
             /\ Len(auditRecords') = Len(auditRecords) + 1
             /\ auditRecords'[Len(auditRecords')][2] \in {"DELETED", "TO BE DELETED"}

\* C28: in both current policies the deleted counter is the number of audit
\* records with status DELETED in a live run and TO BE DELETED in a dry run,
\* records KEPT or DELETE_FAILED do not count, and no step lowers it.
C28_CounterMatchesRecords ==
    /\ [](policy \in {"harbor", "k8s"} =>
            /\ artifactsDeleted =
                  Cardinality(RecordsWithStatus(IF dryRun THEN "TO BE DELETED" ELSE "DELETED"))
            /\ RecordsWithStatus(IF dryRun THEN "DELETED" ELSE "TO BE DELETED") = {}
            /\ dryRun => RecordsWithStatus("DELETE_FAILED") = {})
    /\ [][CounterStep]_vars

\* A finished live run with a record of each of KEPT and DELETED.
C28_Witness ==
    /\ policy \in {"harbor", "k8s"}
    /\ ~dryRun
    /\ pc = "done"
    /\ artifactsDeleted = 1
    /\ RecordsWithStatus("KEPT") # {}
    /\ RecordsWithStatus("DELETED") # {}

====
